---- MODULE Spec2Model ----
(***************************************************************************)
(* Job lifecycle of the TRELLIS API gateway: one job followed through the  *)
(* POST handler (routers/rembg.py, routers/trellis.py), the Redis job      *)
(* store (services/job_store.py), the Celery task that processes it        *)
(* (tasks/rembg_tasks.py, tasks/trellis_tasks.py) and the DELETE handler   *)
(* (routers/jobs.py).                                                      *)
(*                                                                         *)
(* JobStore.update_job is a read-modify-write: get_job (GET) followed by   *)
(* setex of the whole record.  Each call is therefore two steps, a read    *)
(* into a local snapshot and a write of the modified snapshot, and the     *)
(* steps of the gateway, the worker and the DELETE handler interleave.     *)
(* Wall-clock values are abstracted to None / "now".                       *)
(***************************************************************************)
EXTENDS Integers, Sequences, FiniteSets, TLC

\* ---------------------------------------------------------------- bounds
MaxFiles == 2          \* files per upload request explored
MaxRedeliver == 1      \* redeliveries of the task after a lost worker
MaxDeletes == 2        \* DELETE requests issued for the job
MaxOver == 1           \* files of an upload request beyond max_files_per_request
TtlTicks == 3          \* the ttl of a record, in clock ticks
MaxNameLen == 4        \* characters of a filename given to _sanitize_filename
MaxBatch == 3          \* uploads of a save_uploads call whose names are followed
MaxTuple == 2          \* elements of a tuple or list returned by client.predict
MaxHours == 2          \* cleanup_after_hours given to StorageService(...), in ticks

\* ------------------------------------------------------ program constants
rembg_max_retries == 3
trellis_max_retries == 2
max_files_per_request == 10

None == "None"
TaskId == "task-1"
JobTypes == {"rembg", "trellis"}
Stems == {"a", "b"}
\* str(e) of the exception a backend raises: any text, the empty text included
ErrorTexts == {"", "boom"}

PENDING == "pending"
PROCESSING == "processing"
COMPLETED == "completed"
FAILED == "failed"
CANCELLED == "cancelled"
Terminal == {COMPLETED, FAILED, CANCELLED}

\* redis GET of a key that does not exist
NoJob == [absent |-> TRUE]

max_retries(job_type) == IF job_type = "rembg" THEN rembg_max_retries ELSE trellis_max_retries

\* upload requests: 1..MaxFiles saved input files, named by their stems (two
\* saved files may share a stem and differ in extension); the first stem is
\* fixed, the names being interchangeable
InputChoices == {s \in UNION {[1..n -> Stems] : n \in 1..MaxFiles} : s[1] = "a"}

\* ------------------------------------------------------------- job store
create_job(job_type, input_count, filenames) ==
    [job_type |-> job_type,
     status |-> PENDING,
     completed_at |-> None,
     progress |-> 0,
     message |-> "Queued for processing",
     error |-> None,
     input_count |-> input_count,
     output_count |-> 0,
     filenames |-> filenames,
     download_urls |-> <<>>,
     celery_task_id |-> None]

\* update_job without the not-found return: the setex is always reached
job_found_Upsert(job_data) == TRUE

\* `if not job_data: return None`
job_found(job_data) == job_data # NoJob

\* the keyword arguments of update_job that are not None are the fields of args
status_update(job_data, args) ==
    IF "status" \in DOMAIN args
    THEN [status |-> args.status,
          completed_at |-> IF args.status \in Terminal THEN "now"
                           ELSE IF "completed_at" \in DOMAIN job_data
                                THEN job_data.completed_at ELSE None]
    ELSE << >>

\* the body of update_job between the read and the setex
update_job(job_data, args) ==
    LET st == status_update(job_data, args)
        keys == DOMAIN job_data \cup DOMAIN args \cup DOMAIN st
    IN  [k \in keys |->
            IF k \in DOMAIN st /\ k = "completed_at" THEN st.completed_at
            ELSE IF k \in DOMAIN args THEN args[k]
            ELSE job_data[k]]

set_processing_args(celery_task_id) ==
    [status |-> PROCESSING, celery_task_id |-> celery_task_id,
     message |-> "Processing started"]

set_completed_args(output_count, download_urls, message) ==
    [status |-> COMPLETED, progress |-> 100, output_count |-> output_count,
     download_urls |-> download_urls, message |-> message]

set_failed_args(error) ==
    [status |-> FAILED, error |-> error, message |-> "Processing failed"]

set_cancelled_args ==
    [status |-> CANCELLED, message |-> "Job cancelled by user"]

\* ----------------------------------------------------------------- state
VARIABLES
    job_type,       \* type of the job of this run
    inputs,         \* stems of the saved input files, in upload order
    store,          \* the record under key job:<id>, or NoJob
    upload_dir,     \* uploads/<id> exists
    output_dir,     \* outputs/<id> exists
    output_files,   \* names of the files in outputs/<id>
    gw_pc,          \* position of the POST handler
    gw_snap,        \* job_data of the POST handler's update_job
    task,           \* the dispatch unit: state and request.retries
    w_pc,           \* position of the worker inside the task body
    w_snap,         \* job_data of the worker's current update_job
    w_i,            \* images handled so far by process_batch
    w_out,          \* output_paths of process_batch
    w_err,          \* error_msg of the except branch
    d_pc,           \* position of the DELETE handler
    d_job,          \* job_data read by the DELETE handler (the fields it uses)
    d_snap,         \* job_data of set_cancelled's update_job
    revoked,        \* control.revoke was broadcast for the task
    hist,           \* history of the run, read by the properties only
    files,          \* the files of the upload request
    backend,        \* the backend form field of POST /jobs/trellis
    runpod_endpoint,\* settings.runpod_endpoint is set
    runpod_api_key, \* settings.runpod_api_key is set
    saved,          \* number of files save_uploads has written to uploads/<id>
    response,       \* the last HTTP response: its request and status code
    ttl,            \* clock ticks until the key of the record expires
    fn,             \* the function of the storage or backend service called
    arg,            \* its arguments
    result,         \* what the call returned or raised
    disk,           \* the files and directories present
    now,            \* the clock
    tree,           \* the job directories of the two roots: their mtime
    storage,        \* a StorageService object
    started,        \* the clock when the running handler or attempt began, else 0
    remote,         \* the status the RunPod endpoint reports for the submitted job
    log             \* the warnings the backend clients have logged

vars == <<job_type, inputs, store, upload_dir, output_dir, output_files,
          gw_pc, gw_snap, task, w_pc, w_snap, w_i, w_out, w_err,
          d_pc, d_job, d_snap, revoked, hist,
          files, backend, runpod_endpoint, runpod_api_key, saved, response, ttl,
          fn, arg, result, disk, now, tree, storage, started, remote, log>>

\* the service calls explored on their own
call_vars == <<fn, arg, result, disk>>
\* the job directories under the clock
sweep_vars == <<now, tree, storage, started>>
\* the backend clients of a task
client_vars == <<remote, log>>
\* what no step of a request handler or of a task changes
request_vars == <<job_type, inputs, files, backend, runpod_endpoint, runpod_api_key,
                  call_vars, sweep_vars, client_vars>>
\* followed only where the POST validation or the expiry clock is explored
side_vars == <<saved, response, ttl>>
file_vars == <<upload_dir, output_dir, output_files>>
gw_vars == <<gw_pc, gw_snap>>
w_vars == <<w_pc, w_snap, w_i, w_out, w_err>>
d_vars == <<d_pc, d_job, d_snap>>

\* an upload: filename as <<stem, suffix>> and content type as
\* <<type, subtype>> (<<"", "">> when the client sent none), and whether the
\* content exceeds max_file_size
NoText == <<"", "">>
FileOk == [filename |-> <<"a", ".png">>, content_type |-> <<"image", "png">>, oversized |-> FALSE]
FileNoName == [filename |-> NoText, content_type |-> <<"image", "png">>, oversized |-> FALSE]
FileBadExt == [filename |-> <<"a", ".exe">>, content_type |-> <<"image", "png">>, oversized |-> FALSE]
FileBadType == [filename |-> <<"a", ".png">>, content_type |-> <<"text", "plain">>, oversized |-> FALSE]
FileNoType == [filename |-> <<"a", ".png">>, content_type |-> NoText, oversized |-> FALSE]
FileTooBig == [filename |-> <<"a", ".png">>, content_type |-> <<"image", "png">>, oversized |-> TRUE]
SpecialFiles == {FileNoName, FileBadExt, FileBadType, FileNoType, FileTooBig}

\* no request has been answered yet
NoResponse == [request |-> None, code |-> 0]

\* nothing has run for the job yet
Fresh ==
    /\ store = NoJob
    /\ upload_dir = FALSE
    /\ output_dir = FALSE
    /\ output_files = {}
    /\ gw_snap = NoJob
    /\ task = [state |-> "none", retries |-> 0, redelivered |-> 0]
    /\ w_pc = "idle"
    /\ w_snap = NoJob
    /\ w_i = 0
    /\ w_out = <<>>
    /\ w_err = None
    /\ d_pc = "idle"
    /\ d_job = NoJob
    /\ d_snap = NoJob
    /\ revoked = FALSE
    /\ hist = [attempts |-> 0,        \* backend invocations
               succeeded |-> FALSE,   \* some backend invocation returned
               missed |-> FALSE,      \* an update_job of the worker returned None
               revoke_calls |-> 0,    \* control.revoke calls
               deletes |-> 0,         \* DELETE requests that returned
               deleted |-> FALSE,     \* a DELETE request returned 200
               deleted_live |-> FALSE]\* a DELETE of a processing job with a token returned 200
    /\ saved = 0
    /\ response = NoResponse

\* no backend client is followed
NoClient ==
    /\ remote = None
    /\ log = {}

\* no job directory is followed
NoSweep ==
    /\ now = 0
    /\ tree = <<>>
    /\ storage = [cleanup_after_hours |-> TtlTicks]
    /\ started = 0

\* no call of a service is explored on its own
NoCalls ==
    /\ fn = None
    /\ arg = [none |-> TRUE]
    /\ result = [pending |-> TRUE]
    /\ disk = <<>>
    /\ NoSweep
    /\ NoClient

\* a POST request that has passed the checks of the handler; the life of its
\* job follows
Init ==
    /\ job_type \in JobTypes
    /\ inputs \in InputChoices
    /\ files = [i \in 1..Len(inputs) |-> FileOk]
    /\ backend = IF job_type = "trellis" THEN "huggingface" ELSE None
    /\ runpod_endpoint = FALSE
    /\ runpod_api_key = FALSE
    /\ gw_pc = "start"
    /\ ttl = TtlTicks
    /\ Fresh
    /\ NoCalls

\* ------------------------------------------------- POST /jobs/{rembg,trellis}
\* storage.save_uploads: creates uploads/<id> and writes the files
GwSaveUploads ==
    /\ gw_pc = "start"
    /\ gw_pc' = "saved"
    /\ upload_dir' = TRUE
    /\ UNCHANGED <<request_vars, side_vars, store, output_dir, output_files, gw_snap, task,
                   w_vars, d_vars, revoked, hist>>

\* job_store.create_job
GwCreateJob ==
    /\ gw_pc = "saved"
    /\ gw_pc' = "created"
    /\ store' = create_job(job_type, Len(inputs), inputs)
    /\ UNCHANGED <<request_vars, side_vars, file_vars, gw_snap, task, w_vars, d_vars,
                   revoked, hist>>

\* storage.get_job_output_dir (mkdir) and process_*.delay
GwEnqueue ==
    /\ gw_pc = "created"
    /\ gw_pc' = "enqueued"
    /\ output_dir' = TRUE
    /\ task' = [task EXCEPT !.state = "queued"]
    /\ UNCHANGED <<request_vars, side_vars, store, upload_dir, output_files, gw_snap,
                   w_vars, d_vars, revoked, hist>>

\* job_store.update_job(job_id, celery_task_id=task.id): the read
GwTokenRead ==
    /\ gw_pc = "enqueued"
    /\ gw_snap' = store
    /\ gw_pc' = IF job_found(store) THEN "token_write" ELSE "done"
    /\ UNCHANGED <<request_vars, side_vars, store, file_vars, task, w_vars, d_vars,
                   revoked, hist>>

\* job_store.update_job(job_id, celery_task_id=task.id): the setex
GwTokenWrite ==
    /\ gw_pc = "token_write"
    /\ store' = update_job(gw_snap, [celery_task_id |-> TaskId])
    /\ gw_snap' = NoJob
    /\ gw_pc' = "done"
    /\ UNCHANGED <<request_vars, side_vars, file_vars, task, w_vars, d_vars, revoked, hist>>

Gateway == GwSaveUploads \/ GwCreateJob \/ GwEnqueue \/ GwTokenRead \/ GwTokenWrite

\* ------------------------------------------------------- the Celery task
\* the history record with some fields replaced
Hist(changes) == [k \in DOMAIN hist |-> IF k \in DOMAIN changes THEN changes[k] ELSE hist[k]]

\* the retry test off by one: a retry is requested once more than allowed
should_retry_OffByOne(retries, job_type_) == retries <= max_retries(job_type_)

\* `self.request.retries < self.max_retries`
should_retry(retries, job_type_) == retries < max_retries(job_type_)

\* int((current / total) * 100) of the progress callback
progress_percent(current, total) == (current * 100) \div total

\* except Exception: retry while retries < max_retries, else set_failed
except_branch == IF should_retry(task.retries, job_type) THEN "retry_read" ELSE "fail_read"

\* names of the files a run writes into outputs/<id>
output_name(stem) == stem
GlbName == "glb"

\* get_job of an update_job issued by the worker
WRead(from, write_pc, skip_pc) ==
    /\ w_pc = from
    /\ w_snap' = store
    /\ w_pc' = IF job_found(store) THEN write_pc ELSE skip_pc
    /\ hist' = IF job_found(store) THEN hist ELSE Hist([missed |-> TRUE])
    /\ UNCHANGED <<request_vars, side_vars, store, file_vars, gw_vars, task, w_i, w_out,
                   w_err, d_vars, revoked>>

\* setex of an update_job issued by the worker
WWrite(from, args, next_pc) ==
    /\ w_pc = from
    /\ store' = update_job(w_snap, args)
    /\ w_snap' = NoJob
    /\ w_pc' = next_pc
    /\ UNCHANGED <<request_vars, side_vars, file_vars, gw_vars, task, w_i, w_out,
                   w_err, d_vars, revoked, hist>>

\* the task body is left (return, raise or kill): its locals are gone
WorkerExit ==
    /\ w_pc' = "idle"
    /\ w_snap' = NoJob
    /\ w_i' = 0
    /\ w_out' = <<>>
    /\ w_err' = None

\* a worker takes the queued unit and enters the task body
TaskStart ==
    /\ task.state = "queued"
    /\ w_pc = "idle"
    /\ task' = [task EXCEPT !.state = "running"]
    /\ w_pc' = "sp_read"
    /\ UNCHANGED <<request_vars, side_vars, store, file_vars, gw_vars, w_snap, w_i, w_out,
                   w_err, d_vars, revoked, hist>>

after_set_processing == IF job_type = "rembg" THEN "service" ELSE "connect_read"

\* job_store.set_processing(job_id, celery_task_id)
WSetProcessingRead == WRead("sp_read", "sp_write", after_set_processing)
WSetProcessingWrite ==
    WWrite("sp_write", set_processing_args(TaskId), after_set_processing)

\* process_trellis: update_job(message="Connecting...", progress=10)
WConnectRead == WRead("connect_read", "connect_write", "p30_read")
WConnectWrite ==
    WWrite("connect_write", [message |-> "Connecting", progress |-> 10], "p30_read")

\* process_trellis: update_job(message="Processing ...", progress=30)
WProgress30Read == WRead("p30_read", "p30_write", "backend")
WProgress30Write ==
    WWrite("p30_write", [message |-> "Processing images", progress |-> 30], "backend")

\* trellis_service.process: the backend reads the inputs and computes; it
\* raises when an input is gone or the remote call fails
WTrellisCall ==
    /\ w_pc = "backend"
    /\ \/ /\ upload_dir
          /\ w_pc' = "backend_save"
          /\ w_err' = w_err
          /\ hist' = Hist([attempts |-> hist.attempts + 1, succeeded |-> TRUE])
       \/ \E e \in ErrorTexts :
          /\ w_err' = e
          /\ w_pc' = except_branch
          /\ hist' = Hist([attempts |-> hist.attempts + 1])
    /\ UNCHANGED <<request_vars, side_vars, store, file_vars, gw_vars, task, w_snap, w_i,
                   w_out, d_vars, revoked>>

\* trellis backend: output_path.parent.mkdir(parents=True) and the GLB write
WTrellisSave ==
    /\ w_pc = "backend_save"
    /\ output_dir' = TRUE
    /\ output_files' = output_files \cup {GlbName}
    /\ w_out' = <<GlbName>>
    /\ w_pc' = "done_read"
    /\ UNCHANGED <<request_vars, side_vars, store, upload_dir, gw_vars, task, w_snap, w_i,
                   w_err, d_vars, revoked, hist>>

\* process_batch: the loop goes on with image i + 1, or returns output_paths
after_image(i) == IF i < Len(inputs) THEN "batch" ELSE "done_read"

\* process_rembg: get_rembg_service and the entry of process_batch
\* (output_dir.mkdir); either may raise
WRembgService ==
    /\ w_pc = "service"
    /\ \/ /\ w_pc' = after_image(0)
          /\ output_dir' = TRUE
          /\ w_err' = w_err
          /\ hist' = Hist([attempts |-> hist.attempts + 1, succeeded |-> TRUE])
       \/ \E e \in ErrorTexts :
          /\ w_err' = e
          /\ w_pc' = except_branch
          /\ output_dir' = output_dir
          /\ hist' = Hist([attempts |-> hist.attempts + 1])
    /\ UNCHANGED <<request_vars, side_vars, store, upload_dir, output_files, gw_vars, task,
                   w_snap, w_i, w_out, d_vars, revoked>>

\* process_batch, one image: Image.open and remove(); an exception is logged
\* and the loop continues with the next image
WRembgOpen ==
    /\ w_pc = "batch"
    /\ \/ /\ upload_dir
          /\ w_pc' = "save"
          /\ w_i' = w_i
       \/ /\ w_pc' = after_image(w_i + 1)
          /\ w_i' = w_i + 1
    /\ UNCHANGED <<request_vars, side_vars, store, file_vars, gw_vars, task, w_snap, w_out,
                   w_err, d_vars, revoked, hist>>

\* process_single: output_path.parent.mkdir(parents=True), output.save, and
\* output_paths.append
WRembgSave ==
    /\ w_pc = "save"
    /\ output_dir' = TRUE
    /\ output_files' = output_files \cup {output_name(inputs[w_i + 1])}
    /\ w_out' = Append(w_out, output_name(inputs[w_i + 1]))
    /\ w_i' = w_i + 1
    /\ w_pc' = "cb_read"
    /\ UNCHANGED <<request_vars, side_vars, store, upload_dir, gw_vars, task, w_snap,
                   w_err, d_vars, revoked, hist>>

\* update_progress(i + 1, total)
WProgressRead == WRead("cb_read", "cb_write", after_image(w_i))
WProgressWrite ==
    WWrite("cb_write",
           [progress |-> progress_percent(w_i, Len(inputs)),
            message |-> "Processing image"],
           after_image(w_i))

completed_message == IF job_type = "rembg" THEN "Successfully removed backgrounds"
                     ELSE "Successfully generated 3D model"

\* job_store.set_completed(job_id, output_count, download_urls, message)
WSetCompletedRead == WRead("done_read", "done_write", "return_ok")
WSetCompletedWrite ==
    WWrite("done_write",
           set_completed_args(Len(w_out), w_out, completed_message),
           "return_ok")

\* update_job(job_id, message="Retrying...")
WRetryRead == WRead("retry_read", "retry_write", "retry_raise")
WRetryWrite == WWrite("retry_write", [message |-> "Retrying"], "retry_raise")

\* raise self.retry(exc=e): the unit is queued again with retries + 1.
\* Task.retry itself raises exc, and the task ends without a further write,
\* when the new count would exceed max_retries
WRetryRaise ==
    /\ w_pc = "retry_raise"
    /\ task' = IF task.retries + 1 > max_retries(job_type)
               THEN [task EXCEPT !.state = "raised"]
               ELSE [task EXCEPT !.state = "queued", !.retries = task.retries + 1]
    /\ WorkerExit
    /\ UNCHANGED <<request_vars, side_vars, store, file_vars, gw_vars, d_vars, revoked, hist>>

\* job_store.set_failed(job_id, error_msg)
WSetFailedRead == WRead("fail_read", "fail_write", "return_failed")
WSetFailedWrite == WWrite("fail_write", set_failed_args(w_err), "return_failed")

\* the task body returned; the message is acknowledged (acks_late)
TaskAck ==
    /\ w_pc \in {"return_ok", "return_failed"}
    /\ task' = [task EXCEPT !.state = IF w_pc = "return_ok" THEN "succeeded" ELSE "failed"]
    /\ WorkerExit
    /\ UNCHANGED <<request_vars, side_vars, store, file_vars, gw_vars, d_vars, revoked, hist>>

\* the worker process dies before the acknowledgement; with
\* task_reject_on_worker_lost the message is requeued, retries unchanged
WorkerLost ==
    /\ w_pc # "idle"
    /\ task.redelivered < MaxRedeliver
    /\ task' = [task EXCEPT !.state = "queued", !.redelivered = task.redelivered + 1]
    /\ WorkerExit
    /\ UNCHANGED <<request_vars, side_vars, store, file_vars, gw_vars, d_vars, revoked, hist>>

\* the hard time limit (time_limit) elapses: the pool kills the worker
\* process and acknowledges the message; no code of the task runs
HardTimeLimit ==
    /\ w_pc \notin {"idle", "return_ok", "return_failed"}
    /\ task' = [task EXCEPT !.state = "timed_out"]
    /\ WorkerExit
    /\ UNCHANGED <<request_vars, side_vars, store, file_vars, gw_vars, d_vars, revoked, hist>>

\* revoke(terminate=True) reaches the worker: a unit not yet started is
\* discarded, a running one is terminated; best effort, it may also not act
RevokeActs ==
    /\ revoked
    /\ \/ task.state = "queued"
       \/ w_pc # "idle"
    /\ task' = [task EXCEPT !.state = "revoked"]
    /\ WorkerExit
    /\ UNCHANGED <<request_vars, side_vars, store, file_vars, gw_vars, d_vars, revoked, hist>>

Worker ==
    \/ TaskStart
    \/ WSetProcessingRead \/ WSetProcessingWrite
    \/ WConnectRead \/ WConnectWrite
    \/ WProgress30Read \/ WProgress30Write
    \/ WTrellisCall \/ WTrellisSave
    \/ WRembgService \/ WRembgOpen \/ WRembgSave
    \/ WProgressRead \/ WProgressWrite
    \/ WSetCompletedRead \/ WSetCompletedWrite
    \/ WRetryRead \/ WRetryWrite \/ WRetryRaise
    \/ WSetFailedRead \/ WSetFailedWrite
    \/ TaskAck

Dispatcher == WorkerLost \/ HardTimeLimit \/ RevokeActs

\* ------------------------------------------------------ DELETE /jobs/{id}
cancellable(job_data) == job_data.status \in {PENDING, PROCESSING}

\* `if not job_data: raise HTTPException(404)` of the handler
job_exists(job_data) == job_data # NoJob

\* job_store.get_job; 404 when the record is missing.  The job id is a
\* uuid4 the client learns from the POST response, so a request for it
\* arrives only after the POST handler has returned
DelGetJob ==
    /\ d_pc = "idle"
    /\ gw_pc = "done"
    /\ hist.deletes < MaxDeletes
    /\ IF job_exists(store)
       THEN /\ d_job' = [status |-> store.status, celery_task_id |-> store.celery_task_id]
            /\ d_pc' = "revoke"
            /\ hist' = hist
       ELSE /\ d_job' = NoJob
            /\ d_pc' = "idle"
            /\ hist' = Hist([deletes |-> hist.deletes + 1])
    /\ UNCHANGED <<request_vars, side_vars, store, file_vars, gw_vars, task, w_vars,
                   d_snap, revoked>>

\* the handler without the try/except around revoke: an exception of revoke
\* ends the request
after_revoke_Propagates(raised, job_data) ==
    IF raised THEN "idle"
    ELSE IF cancellable(job_data) THEN "cancel_read" ELSE "cleanup"

\* where the handler goes on after the revoke block: `except Exception` logs
\* a warning, so an exception of revoke changes nothing
after_revoke(raised, job_data) ==
    IF cancellable(job_data) THEN "cancel_read" ELSE "cleanup"

\* celery_app.control.revoke(celery_task_id, terminate=True) when the record
\* read has a token.  The call either broadcasts the revoke or raises (broker
\* unreachable); a revoke that raised never acts
DelRevoke ==
    /\ d_pc = "revoke"
    /\ IF d_job.celery_task_id # None
       THEN \E raised \in BOOLEAN :
            /\ revoked' = IF raised THEN revoked ELSE TRUE
            /\ hist' = Hist([revoke_calls |-> hist.revoke_calls + 1])
            /\ d_pc' = after_revoke(raised, d_job)
       ELSE /\ UNCHANGED <<revoked, hist>>
            /\ d_pc' = after_revoke(FALSE, d_job)
    /\ UNCHANGED <<request_vars, side_vars, store, file_vars, gw_vars, task, w_vars,
                   d_job, d_snap>>

\* job_store.set_cancelled(job_id): the read
DelCancelRead ==
    /\ d_pc = "cancel_read"
    /\ d_snap' = store
    /\ d_pc' = IF job_found(store) THEN "cancel_write" ELSE "cleanup"
    /\ UNCHANGED <<request_vars, side_vars, store, file_vars, gw_vars, task, w_vars,
                   d_job, revoked, hist>>

\* job_store.set_cancelled(job_id): the setex
DelCancelWrite ==
    /\ d_pc = "cancel_write"
    /\ store' = update_job(d_snap, set_cancelled_args)
    /\ d_snap' = NoJob
    /\ d_pc' = "cleanup"
    /\ UNCHANGED <<request_vars, side_vars, file_vars, gw_vars, task, w_vars, d_job,
                   revoked, hist>>

\* storage.cleanup_job(job_id): rmtree of uploads/<id> and outputs/<id>
DelCleanup ==
    /\ d_pc = "cleanup"
    /\ upload_dir' = FALSE
    /\ output_dir' = FALSE
    /\ output_files' = {}
    /\ d_pc' = "delete"
    /\ UNCHANGED <<request_vars, side_vars, store, gw_vars, task, w_vars, d_job, d_snap,
                   revoked, hist>>

\* job_store.delete_job(job_id) and the 200 response
DelDeleteJob ==
    /\ d_pc = "delete"
    /\ store' = NoJob
    /\ d_pc' = "idle"
    /\ d_job' = NoJob
    /\ hist' = Hist([deletes |-> hist.deletes + 1,
                     deleted |-> TRUE,
                     deleted_live |-> hist.deleted_live
                                       \/ (d_job.status = PROCESSING
                                           /\ d_job.celery_task_id # None)])
    /\ UNCHANGED <<request_vars, side_vars, file_vars, gw_vars, task, w_vars, d_snap, revoked>>

Delete ==
    \/ DelGetJob \/ DelRevoke \/ DelCancelRead \/ DelCancelWrite
    \/ DelCleanup \/ DelDeleteJob

\* ------------------------------------------------------------ record expiry
\* the key's TTL (cleanup_after_hours, re-armed by every setex) runs out.  The
\* TTL is at least an hour and exceeds the hard time limits of both tasks, so
\* it cannot run out inside a request handler or inside one task execution,
\* only while the unit waits in the queue or after the work has ended
Expire ==
    /\ store # NoJob
    /\ gw_pc \in {"done"}
    /\ w_pc = "idle"
    /\ d_pc = "idle"
    /\ store' = NoJob
    /\ UNCHANGED <<request_vars, side_vars, file_vars, gw_vars, task, w_vars, d_vars,
                   revoked, hist>>

Next == Gateway \/ Worker \/ Dispatcher \/ Delete \/ Expire

Spec == Init /\ [][Next]_vars

\* ============================ the POST handlers from the arrival of a request
SUPPORTED_FORMATS == {".jpg", ".jpeg", ".png", ".webp", ".bmp", ".tiff", ".tif"}
TrellisBackend == {"huggingface", "runpod", "modal"}
\* values of the backend form field explored: the enum's and one other
BackendNames == TrellisBackend \cup {"local"}

\* upload requests of 0 .. max_files_per_request + MaxOver files, at most one
\* of which differs from a plain valid image
UploadChoices ==
    UNION {{[i \in 1..n |-> IF i = k THEN f ELSE FileOk] : k \in 0..n, f \in SpecialFiles}
           : n \in 0..(max_files_per_request + MaxOver)}

\* the file count test off by one: one file more than the limit passes
too_many_OffByOne(n) == n > max_files_per_request + 1

\* `len(files) > settings.max_files_per_request`
too_many(n) == n > max_files_per_request

\* TrellisBackend(backend) does not raise ValueError
backend_valid(name) == name \in TrellisBackend

\* `trellis_backend == TrellisBackend.RUNPOD and not settings.runpod_endpoint`
runpod_unavailable == backend = "runpod" /\ ~runpod_endpoint

\* save_uploads, one file: the detail of the HTTPException(400) it raises for
\* the file, None when the file is written
file_error(file) ==
    IF file.filename = NoText THEN "File must have a filename"
    ELSE IF file.filename[2] \notin SUPPORTED_FORMATS THEN "Unsupported file format"
    ELSE IF file.content_type # NoText /\ file.content_type[1] # "image"
         THEN "Invalid content type"
    ELSE IF file.oversized THEN "File exceeds max size"
    ELSE None

\* index of the file at which the loop of save_uploads raises, 0 when none
first_rejected(fs) ==
    IF \E i \in 1..Len(fs) : file_error(fs[i]) # None
    THEN CHOOSE i \in 1..Len(fs) :
            /\ file_error(fs[i]) # None
            /\ \A j \in 1..(i - 1) : file_error(fs[j]) = None
    ELSE 0

post_frame == <<request_vars, output_files, gw_snap, w_vars, d_vars, revoked, hist, ttl>>

\* the handler raises HTTPException(code) or returns the JobResponse
PostRespond(code) ==
    /\ response' = [request |-> "POST", code |-> code]
    /\ gw_pc' = "responded"

InitPost ==
    /\ job_type \in JobTypes
    /\ inputs = <<"a">>
    /\ files \in UploadChoices
    /\ backend \in (IF job_type = "trellis" THEN BackendNames ELSE {None})
    /\ runpod_endpoint \in (IF job_type = "trellis" THEN BOOLEAN ELSE {FALSE})
    /\ runpod_api_key \in (IF job_type = "trellis" THEN BOOLEAN ELSE {FALSE})
    /\ gw_pc = "request"
    /\ ttl = TtlTicks
    /\ Fresh
    /\ NoCalls

\* "Validate file count"
PostCheckCount ==
    /\ gw_pc = "request"
    /\ IF Len(files) = 0 \/ too_many(Len(files))
       THEN PostRespond(400)
       ELSE /\ gw_pc' = IF job_type = "trellis" THEN "backend" ELSE "save"
            /\ response' = response
    /\ UNCHANGED <<post_frame, store, file_vars, task, saved>>

\* convert_to_3d: "Validate backend" and "Check RunPod availability"
PostCheckBackend ==
    /\ gw_pc = "backend"
    /\ IF ~backend_valid(backend) \/ runpod_unavailable
       THEN PostRespond(400)
       ELSE /\ gw_pc' = "save"
            /\ response' = response
    /\ UNCHANGED <<post_frame, store, file_vars, task, saved>>

\* storage.save_uploads: mkdir of uploads/<id>, then the files are checked
\* and written one after the other; the HTTPException of a file is re-raised
\* by the handler as it is
PostSaveUploads ==
    /\ gw_pc = "save"
    /\ upload_dir' = TRUE
    /\ LET k == first_rejected(files)
       IN  IF k = 0
           THEN /\ saved' = Len(files)
                /\ gw_pc' = "saved"
                /\ response' = response
           ELSE /\ saved' = k - 1
                /\ PostRespond(400)
    /\ UNCHANGED <<post_frame, store, output_dir, task>>

\* job_store.create_job
PostCreateJob ==
    /\ gw_pc = "saved"
    /\ store' = create_job(job_type, Len(files), [i \in 1..Len(files) |-> files[i].filename])
    /\ gw_pc' = "created"
    /\ UNCHANGED <<post_frame, file_vars, task, saved, response>>

\* storage.get_job_output_dir (mkdir) and process_*.delay
PostEnqueue ==
    /\ gw_pc = "created"
    /\ output_dir' = TRUE
    /\ task' = [task EXCEPT !.state = "queued"]
    /\ gw_pc' = "enqueued"
    /\ UNCHANGED <<post_frame, store, upload_dir, saved, response>>

\* job_store.update_job(job_id, celery_task_id=task.id) and the JobResponse
PostSetToken ==
    /\ gw_pc = "enqueued"
    /\ store' = IF job_found(store) THEN update_job(store, [celery_task_id |-> TaskId])
                ELSE store
    /\ PostRespond(200)
    /\ UNCHANGED <<post_frame, file_vars, task, saved>>

\* `except Exception`: create_job, delay or update_job raised (Redis or the
\* broker unreachable); storage.cleanup_job and HTTPException(500)
PostError ==
    /\ gw_pc \in {"saved", "created", "enqueued"}
    /\ upload_dir' = FALSE
    /\ output_dir' = FALSE
    /\ saved' = 0
    /\ PostRespond(500)
    /\ UNCHANGED <<post_frame, store, task>>

NextPost ==
    \/ PostCheckCount \/ PostCheckBackend \/ PostSaveUploads \/ PostCreateJob
    \/ PostEnqueue \/ PostSetToken \/ PostError

SpecPost == InitPost /\ [][NextPost]_vars

\* ================================== the expiry of the record's key, by the clock
\* a write that keeps the expiry the key had (SET ... KEEPTTL)
setex_ttl_KeepTtl(remaining) == remaining

\* `self.redis.setex(key, self.ttl, ...)`: the key expires self.ttl after
\* this write, whatever was left of its earlier expiry
setex_ttl(remaining) == TtlTicks

\* the updates the gateway, the worker and the DELETE handler issue
UpdateArgs ==
    {[celery_task_id |-> TaskId],
     set_processing_args(TaskId),
     [progress |-> 50, message |-> "Processing image"],
     set_completed_args(1, <<"a">>, completed_message),
     set_failed_args("boom"),
     set_cancelled_args}

\* download_file: 404 without a record, 400 unless completed, 404 without the
\* file, else the file
download_code(job_data, file_present) ==
    IF ~job_exists(job_data) THEN 404
    ELSE IF job_data.status # COMPLETED THEN 400
    ELSE IF ~file_present THEN 404
    ELSE 200

ttl_frame == <<request_vars, gw_snap, task, w_i, w_out, w_err, d_vars, revoked, saved>>

InitTtl ==
    /\ job_type \in JobTypes
    /\ inputs = <<"a">>
    /\ files = <<FileOk>>
    /\ backend = IF job_type = "trellis" THEN "huggingface" ELSE None
    /\ runpod_endpoint = FALSE
    /\ runpod_api_key = FALSE
    /\ gw_pc = "start"
    /\ ttl = 0
    /\ Fresh
    /\ NoCalls

\* job_store.create_job: setex of the new record
TtlCreateJob ==
    /\ gw_pc = "start"
    /\ store' = create_job(job_type, Len(inputs), inputs)
    /\ ttl' = setex_ttl(ttl)
    /\ gw_pc' = "done"
    /\ UNCHANGED <<ttl_frame, file_vars, w_pc, w_snap, hist, response>>

\* job_store.update_job: the read; None is returned when there is no record
TtlUpdateRead ==
    /\ w_pc = "idle"
    /\ w_snap' = store
    /\ w_pc' = IF job_found(store) THEN "ttl_write" ELSE "idle"
    /\ hist' = IF job_found(store) THEN hist ELSE Hist([missed |-> TRUE])
    /\ UNCHANGED <<ttl_frame, store, file_vars, gw_pc, response, ttl>>

\* job_store.update_job: the setex of the modified record
TtlUpdateWrite ==
    /\ w_pc = "ttl_write"
    /\ \E args \in UpdateArgs : store' = update_job(w_snap, args)
    /\ ttl' = setex_ttl(ttl)
    /\ w_snap' = NoJob
    /\ w_pc' = "idle"
    /\ UNCHANGED <<ttl_frame, file_vars, gw_pc, hist, response>>

\* a tick of the clock; Redis removes the key when its expiry is reached
TtlTick ==
    /\ ttl > 0
    /\ ttl' = ttl - 1
    /\ store' = IF ttl = 1 THEN NoJob ELSE store
    /\ UNCHANGED <<ttl_frame, file_vars, gw_pc, w_pc, w_snap, hist, response>>

\* GET /jobs/{id}
TtlGetStatus ==
    /\ response' = [request |-> "GET", code |-> IF job_exists(store) THEN 200 ELSE 404]
    /\ UNCHANGED <<ttl_frame, store, file_vars, gw_pc, w_pc, w_snap, hist, ttl>>

\* GET /jobs/{id}/download/{filename}
TtlDownload ==
    /\ \E file_present \in BOOLEAN :
          response' = [request |-> "download", code |-> download_code(store, file_present)]
    /\ UNCHANGED <<ttl_frame, store, file_vars, gw_pc, w_pc, w_snap, hist, ttl>>

\* DELETE /jobs/{id}, the request as a whole: 404 without a record, else
\* cleanup_job, delete_job and 200
TtlDelete ==
    /\ IF job_exists(store)
       THEN /\ store' = NoJob
            /\ ttl' = 0
            /\ upload_dir' = FALSE
            /\ output_dir' = FALSE
            /\ output_files' = {}
            /\ hist' = Hist([deleted |-> TRUE])
            /\ response' = [request |-> "DELETE", code |-> 200]
       ELSE /\ response' = [request |-> "DELETE", code |-> 404]
            /\ UNCHANGED <<store, ttl, file_vars, hist>>
    /\ UNCHANGED <<ttl_frame, gw_pc, w_pc, w_snap>>

NextTtl ==
    \/ TtlCreateJob \/ TtlUpdateRead \/ TtlUpdateWrite \/ TtlTick
    \/ TtlGetStatus \/ TtlDownload \/ TtlDelete

SpecTtl == InitTtl /\ [][NextTtl]_vars

\* ============================================== calls of the storage service
\* A text is the sequence of its characters, a path the sequence of its
\* components (each a text) below the filesystem root.

lowercase == <<"a", "b", "c", "d", "e", "f", "g", "h", "i", "j", "k", "l", "m",
               "n", "o", "p", "q", "r", "s", "t", "u", "v", "w", "x", "y", "z">>
uppercase == <<"A", "B", "C", "D", "E", "F", "G", "H", "I", "J", "K", "L", "M",
               "N", "O", "P", "Q", "R", "S", "T", "U", "V", "W", "X", "Y", "Z">>
digits == <<"0", "1", "2", "3", "4", "5", "6", "7", "8", "9">>

\* `set("abc...xyzABC...XYZ0123456789._-")`
safe_chars ==
    {lowercase[i] : i \in 1..26} \cup {uppercase[i] : i \in 1..26}
        \cup {digits[i] : i \in 1..10} \cup {".", "_", "-"}

\* str.lower, one character
lower(c) ==
    IF \E i \in 1..26 : uppercase[i] = c
    THEN lowercase[CHOOSE i \in 1..26 : uppercase[i] = c]
    ELSE c

\* str(counter) of the f-string: the decimal digits of n
RECURSIVE str(_)
str(n) == IF n < 10 THEN <<digits[n + 1]>> ELSE str(n \div 10) \o <<digits[(n % 10) + 1]>>

\* pathlib keeps a component unless it is empty or "."
keep_part(acc, cur) == IF cur = <<>> \/ cur = <<".">> THEN acc ELSE Append(acc, cur)

\* Path(text).parts without the root: the text split at "/"
RECURSIVE parse_parts(_, _, _)
parse_parts(s, cur, acc) ==
    IF s = <<>> THEN keep_part(acc, cur)
    ELSE IF Head(s) = "/" THEN parse_parts(Tail(s), <<>>, keep_part(acc, cur))
    ELSE parse_parts(Tail(s), Append(cur, Head(s)), acc)

parts(s) == parse_parts(s, <<>>, <<>>)

\* Path(text).is_absolute()
is_absolute(s) == s # <<>> /\ s[1] = "/"

\* Path(text).name: the last component, "" when there is none
path_name(s) == IF parts(s) = <<>> THEN <<>> ELSE parts(s)[Len(parts(s))]

\* name.rfind("."), counted from 1; 0 when the name has no dot
rfind_dot(name) ==
    IF \E i \in 1..Len(name) : name[i] = "."
    THEN CHOOSE i \in 1..Len(name) :
            name[i] = "." /\ \A j \in (i + 1)..Len(name) : name[j] # "."
    ELSE 0

\* PurePath.suffix and PurePath.stem of a name
path_suffix(name) ==
    IF 1 < rfind_dot(name) /\ rfind_dot(name) < Len(name)
    THEN SubSeq(name, rfind_dot(name), Len(name))
    ELSE <<>>

path_stem(name) ==
    IF 1 < rfind_dot(name) /\ rfind_dot(name) < Len(name)
    THEN SubSeq(name, 1, rfind_dot(name) - 1)
    ELSE name

\* `base / text`: an absolute text replaces the base
joinpath(base, s) == IF is_absolute(s) THEN parts(s) ELSE base \o parts(s)

\* Path.resolve() where no symbolic link exists: ".." steps to the parent,
\* the parent of the root being the root
RECURSIVE resolve_from(_, _)
resolve_from(cur, rest) ==
    IF rest = <<>> THEN cur
    ELSE IF Head(rest) = <<".", ".">>
         THEN resolve_from(IF cur = <<>> THEN cur ELSE SubSeq(cur, 1, Len(cur) - 1),
                           Tail(rest))
    ELSE resolve_from(Append(cur, Head(rest)), Tail(rest))

resolve(p) == resolve_from(<<>>, p)

\* PurePath.relative_to(base) does not raise ValueError: the components of
\* base are the first components of p
is_relative_to(p, base) == Len(base) <= Len(p) /\ SubSeq(p, 1, Len(base)) = base

StorageService_upload_dir == <<<<"s", "r", "v">>, <<"u", "p">>>>
StorageService_output_dir == <<<<"s", "r", "v">>, <<"o", "u", "t">>>>

\* StorageService._sanitize_filename
sanitize_filename(filename) ==
    LET name == path_name(filename)
        sanitized == [i \in 1..Len(name) |-> IF name[i] \in safe_chars THEN name[i] ELSE "_"]
    IN  IF sanitized = <<>> THEN <<"u", "n", "n", "a", "m", "e", "d">> ELSE sanitized

\* the outcome of a call: nothing yet, a returned value, or an exception
NoResult == [pending |-> TRUE]
NoArg == [none |-> TRUE]
\* a result of None where a path is expected
NoPath == [none |-> TRUE]
Returned(value) == [returned |-> value]
Raised(exception) == [raised |-> exception]

\* the files and directories present, as path |-> content: Dir for a
\* directory, for a file a number that stands for its bytes
Dir == -1
IsDir(d, p) == p = <<>> \/ (p \in DOMAIN d /\ d[p] = Dir)

\* Path.exists(): the operating system walks the components, each step
\* starting from a directory
RECURSIVE walk(_, _, _)
walk(d, cur, rest) ==
    IF rest = <<>> THEN cur = <<>> \/ cur \in DOMAIN d
    ELSE /\ IsDir(d, cur)
         /\ walk(d, resolve_from(cur, <<Head(rest)>>), Tail(rest))

exists(d, p) == walk(d, <<>>, p)

\* mkdir(parents=True, exist_ok=True)
mkdir(d, p) ==
    [q \in DOMAIN d \cup {SubSeq(p, 1, n) : n \in 1..Len(p)} |->
        IF q \in DOMAIN d THEN d[q] ELSE Dir]

\* open(path, "wb") and write(content)
write_file(d, p, content) ==
    [q \in DOMAIN d \cup {resolve(p)} |-> IF q = resolve(p) THEN content ELSE d[q]]

\* get_file_path without its "Security check"
get_file_path_NoCheck(d, job_id, filename, is_output) ==
    LET base_dir == IF is_output THEN StorageService_output_dir
                    ELSE StorageService_upload_dir
        file_path == joinpath(joinpath(base_dir, job_id), filename)
    IN  IF exists(d, file_path) THEN [path |-> file_path] ELSE NoPath

\* StorageService.get_file_path
get_file_path(d, job_id, filename, is_output) ==
    LET base_dir == IF is_output THEN StorageService_output_dir
                    ELSE StorageService_upload_dir
        file_path == joinpath(joinpath(base_dir, job_id), filename)
    IN  IF ~is_relative_to(resolve(file_path), resolve(base_dir)) THEN NoPath
        ELSE IF exists(d, file_path) THEN [path |-> file_path]
        ELSE NoPath

\* the suffixes of SUPPORTED_FORMATS as texts
SUPPORTED_FORMATS_text ==
    {<<".", "j", "p", "g">>, <<".", "j", "p", "e", "g">>, <<".", "p", "n", "g">>,
     <<".", "w", "e", "b", "p">>, <<".", "b", "m", "p">>, <<".", "t", "i", "f", "f">>,
     <<".", "t", "i", "f">>}

\* save_uploads, the checks of one file: TRUE when HTTPException(400) is raised
upload_rejected(file) ==
    LET suffix == path_suffix(path_name(file.filename))
    IN  \/ file.filename = <<>>
        \/ [i \in 1..Len(suffix) |-> lower(suffix[i])] \notin SUPPORTED_FORMATS_text
        \/ (file.content_type # NoText /\ file.content_type[1] # "image")
        \/ file.oversized

\* "Handle duplicates" with `if` in the place of `while`
free_path_Once(d, job_upload_dir, original_stem, file_path, counter) ==
    IF exists(d, file_path)
    THEN joinpath(job_upload_dir,
             original_stem \o <<"_">> \o str(counter)
                 \o path_suffix(file_path[Len(file_path)]))
    ELSE file_path

\* save_uploads, "Handle duplicates": the `while file_path.exists()` loop
RECURSIVE free_path(_, _, _, _, _)
free_path(d, job_upload_dir, original_stem, file_path, counter) ==
    IF exists(d, file_path)
    THEN free_path(d, job_upload_dir, original_stem,
             joinpath(job_upload_dir,
                 original_stem \o <<"_">> \o str(counter)
                     \o path_suffix(file_path[Len(file_path)])),
             counter + 1)
    ELSE file_path

\* save_uploads, the loop over the files from the i-th on
RECURSIVE save_loop(_, _, _, _, _, _)
save_loop(d, job_upload_dir, files_, i, saved_paths, filenames) ==
    IF i > Len(files_)
    THEN [disk |-> d, result |-> Returned([saved_paths |-> saved_paths,
                                           filenames |-> filenames])]
    ELSE IF upload_rejected(files_[i])
    THEN [disk |-> d, result |-> Raised("HTTPException(400)")]
    ELSE LET safe_filename == sanitize_filename(files_[i].filename)
             first_path == joinpath(job_upload_dir, safe_filename)
             file_path == free_path(d, job_upload_dir,
                                    path_stem(first_path[Len(first_path)]),
                                    first_path, 1)
         IN  save_loop(write_file(d, file_path, files_[i].content), job_upload_dir,
                       files_, i + 1, Append(saved_paths, file_path),
                       Append(filenames, files_[i].filename))

\* StorageService.save_uploads
save_uploads(d, files_, job_id) ==
    save_loop(mkdir(d, joinpath(StorageService_upload_dir, job_id)),
              joinpath(StorageService_upload_dir, job_id), files_, 1, <<>>, <<>>)

\* ------------------------------------------------ TrellisV1Client, the result
\* `for key in ['output', 'file', 'path', 'model']`
alternate_keys == <<"output", "file", "path", "model">>

\* a dict is given by the set of its keys; result[key] is the key doubled
item(key) == <<key, key>>

\* the first of the keys from the i-th on that the dict has, None when none
RECURSIVE first_key(_, _, _)
first_key(present, keys, i) ==
    IF i > Len(keys) THEN None
    ELSE IF keys[i] \in present THEN keys[i]
    ELSE first_key(present, keys, i + 1)

\* _extract_glb_path trying 'file' before 'output'
extract_glb_path_FileFirst(predicted) ==
    IF predicted.type = "dict"
    THEN IF "glb" \in predicted.keys THEN Returned(item("glb"))
         ELSE IF first_key(predicted.keys, <<"file", "output", "path", "model">>, 1) # None
         THEN Returned(item(first_key(predicted.keys,
                                      <<"file", "output", "path", "model">>, 1)))
         ELSE Raised("ValueError")
    ELSE IF predicted.type = "str" THEN Returned(predicted.value)
    ELSE IF predicted.type \in {"tuple", "list"}
         THEN IF Len(predicted.items) = 0 THEN Raised("IndexError")
              ELSE Returned(predicted.items[1])
    ELSE Raised("ValueError")

\* TrellisV1Client._extract_glb_path
extract_glb_path(predicted) ==
    IF predicted.type = "dict"
    THEN IF "glb" \in predicted.keys THEN Returned(item("glb"))
         ELSE IF first_key(predicted.keys, alternate_keys, 1) # None
         THEN Returned(item(first_key(predicted.keys, alternate_keys, 1)))
         ELSE Raised("ValueError")
    ELSE IF predicted.type = "str" THEN Returned(predicted.value)
    ELSE IF predicted.type \in {"tuple", "list"}
         THEN IF Len(predicted.items) = 0 THEN Raised("IndexError")
              ELSE Returned(predicted.items[1])
    ELSE Raised("ValueError")

\* --------------------------------------------------------------- the inputs
a_png == <<"a", ".", "p", "n", "g">>
etc_passwd == <<"e", "t", "c", "/", "p", "a", "s", "s", "w", "d">>
Job1 == <<"j", "1">>
Job2 == <<"j", "2">>

\* the filenames of the uploads explored: plain, rewritten by the sanitizer
\* ("a b.png"), equal to a rewritten one, with a directory, equal to a
\* disambiguated one, and of an unsupported format
UploadNames ==
    {a_png, <<"a", " ", "b", ".", "p", "n", "g">>, <<"a", "_", "b", ".", "p", "n", "g">>,
     <<"d", "/">> \o a_png, <<"a", "_", "1", ".", "p", "n", "g">>,
     <<"a", ".", "e", "x", "e">>}

\* a request of 0 .. MaxBatch uploads; the bytes of the i-th are i
UploadBatches ==
    {[i \in 1..Len(names) |-> [filename |-> names[i], content_type |-> <<"image", "png">>,
                               oversized |-> FALSE, content |-> i]]
     : names \in UNION {[1..n -> UploadNames] : n \in 0..MaxBatch}}

\* the storage roots alone, and with files of two jobs and a file outside
BareDisk ==
    mkdir(mkdir(<<>>, StorageService_upload_dir), StorageService_output_dir)
SomeDisk ==
    LET at(base, job_id, name) == joinpath(joinpath(base, job_id), name)
        file(d, p) == write_file(mkdir(d, SubSeq(p, 1, Len(p) - 1)), p, 0)
    IN  file(file(file(file(BareDisk,
            at(StorageService_upload_dir, Job1, a_png)),
            at(StorageService_upload_dir, Job2, a_png)),
            at(StorageService_output_dir, Job1, a_png)),
            parts(etc_passwd))

\* the filenames asked for: present, absent, empty, the parent, a file of
\* another job, of the other role, and outside of the roots
LookupNames ==
    {a_png, <<"x">>, <<>>, <<".", ".">>,
     <<".", ".", "/">> \o Job2 \o <<"/">> \o a_png,
     <<".", ".", "/", ".", ".", "/", "o", "u", "t", "/">> \o Job1 \o <<"/">> \o a_png,
     <<".", ".", "/", ".", ".", "/">> \o etc_passwd,
     <<".", ".", "/", ".", ".", "/", ".", ".", "/">> \o etc_passwd,
     <<"/">> \o etc_passwd}

\* all texts of at most n characters of the given set
Texts(chars, n) == UNION {[1..k -> chars] : k \in 0..n}

\* what client.predict returns: a dict with some of the keys, a str, a tuple
\* or list, or something else
ResultKeys == {"glb", "output", "file", "path", "model", "mesh"}
Predicted ==
    {[type |-> "dict", keys |-> K] : K \in SUBSET ResultKeys}
    \cup {[type |-> "str", value |-> <<"s", "s">>]}
    \cup {[type |-> t, items |-> q] : t \in {"tuple", "list"},
                                      q \in UNION {[1..n -> {<<"p", "p">>, <<"q", "q">>}]
                                                   : n \in 0..MaxTuple}}
    \cup {[type |-> "NoneType"], [type |-> "int"]}

\* the calls explored
Calls ==
    {[fn |-> "_sanitize_filename", arg |-> [filename |-> t], disk |-> BareDisk]
        : t \in Texts({"a", ".", "/", " "}, MaxNameLen)}
    \cup {[fn |-> "get_file_path",
           arg |-> [job_id |-> j, filename |-> t, is_output |-> o], disk |-> SomeDisk]
          : j \in {Job1, <<".", ".">>}, t \in LookupNames, o \in BOOLEAN}
    \cup {[fn |-> "save_uploads", arg |-> [files |-> b, job_id |-> Job1], disk |-> d]
          : b \in UploadBatches, d \in {BareDisk, SomeDisk}}
    \cup {[fn |-> "_extract_glb_path", arg |-> [result |-> p], disk |-> BareDisk]
          : p \in Predicted}

\* the request and the job of the other specifications stay as they start
NoJobYet ==
    /\ job_type = "trellis"
    /\ inputs = <<"a">>
    /\ files = <<FileOk>>
    /\ backend = "huggingface"
    /\ runpod_endpoint = FALSE
    /\ runpod_api_key = FALSE
    /\ gw_pc = "start"
    /\ ttl = TtlTicks
    /\ Fresh

InitCalls ==
    /\ NoJobYet
    /\ \E c \in Calls : fn = c.fn /\ arg = c.arg /\ disk = c.disk
    /\ result = NoResult
    /\ NoSweep
    /\ NoClient

calls_frame == <<job_type, inputs, files, backend, runpod_endpoint, runpod_api_key,
                 store, file_vars, gw_vars, task, w_vars, d_vars, revoked, hist,
                 side_vars, sweep_vars, client_vars>>

CallSanitizeFilename ==
    /\ fn = "_sanitize_filename"
    /\ result = NoResult
    /\ result' = Returned(sanitize_filename(arg.filename))
    /\ UNCHANGED <<calls_frame, fn, arg, disk>>

CallGetFilePath ==
    /\ fn = "get_file_path"
    /\ result = NoResult
    /\ result' = get_file_path(disk, arg.job_id, arg.filename, arg.is_output)
    /\ UNCHANGED <<calls_frame, fn, arg, disk>>

CallSaveUploads ==
    /\ fn = "save_uploads"
    /\ result = NoResult
    /\ disk' = save_uploads(disk, arg.files, arg.job_id).disk
    /\ result' = save_uploads(disk, arg.files, arg.job_id).result
    /\ UNCHANGED <<calls_frame, fn, arg>>

\* a client asks for one of the files by the name save_uploads returned
ResolveSaved ==
    /\ fn = "save_uploads"
    /\ "returned" \in DOMAIN result
    /\ \E i \in 1..Len(result.returned.filenames) :
          arg' = [job_id |-> arg.job_id, filename |-> result.returned.filenames[i],
                  is_output |-> FALSE]
    /\ fn' = "get_file_path"
    /\ result' = NoResult
    /\ UNCHANGED <<calls_frame, disk>>

CallExtractGlbPath ==
    /\ fn = "_extract_glb_path"
    /\ result = NoResult
    /\ result' = extract_glb_path(arg.result)
    /\ UNCHANGED <<calls_frame, fn, arg, disk>>

NextCalls ==
    \/ CallSanitizeFilename \/ CallGetFilePath \/ CallSaveUploads \/ ResolveSaved
    \/ CallExtractGlbPath

SpecCalls == InitCalls /\ [][NextCalls]_vars

\* ======================================== the job directories and the sweep
\* Time is counted in clock ticks; settings.cleanup_after_hours, which is both
\* the age at which cleanup_old_jobs removes a directory and the ttl of a
\* record, is TtlTicks ticks.
settings_cleanup_after_hours == TtlTicks
MaxNow == TtlTicks + 2

\* the job whose life is followed, and an older job whose record is gone
JobIds == {"j1", "j2"}
Roots == <<"uploads", "outputs">>
Absent == -1
JobDirs == {<<Roots[r], j>> : r \in 1..2, j \in JobIds}

\* the arguments of StorageService(...): the keyword arguments given
StorageArgs ==
    {[upload_dir |-> "uploads", output_dir |-> "outputs"]}
    \cup {[upload_dir |-> "uploads", output_dir |-> "outputs", cleanup_after_hours |-> h]
          : h \in 0..MaxHours}

\* StorageService.__init__: `cleanup_after_hours or settings.cleanup_after_hours`
StorageService(args) ==
    [cleanup_after_hours |->
        IF "cleanup_after_hours" \in DOMAIN args /\ args.cleanup_after_hours # 0
        THEN args.cleanup_after_hours
        ELSE settings_cleanup_after_hours]

\* cleanup_job removing the upload directory only
cleanup_job_UploadsOnly(t, job_id) ==
    [tree |-> [d \in DOMAIN t |-> IF d = <<Roots[1], job_id>> THEN Absent ELSE t[d]],
     cleaned |-> \E r \in 1..2 : t[<<Roots[r], job_id>>] # Absent]

\* StorageService.cleanup_job
cleanup_job(t, job_id) ==
    [tree |-> [d \in DOMAIN t |-> IF d[2] = job_id THEN Absent ELSE t[d]],
     cleaned |-> \E r \in 1..2 : t[<<Roots[r], job_id>>] # Absent]

\* cleanup_old_jobs: `mtime < cutoff` of a job directory
expired(mtime, cutoff) == mtime # Absent /\ mtime < cutoff

\* StorageService.cleanup_old_jobs
cleanup_old_jobs(t, self, clock) ==
    LET cutoff == clock - self.cleanup_after_hours
    IN  [tree |-> [d \in DOMAIN t |-> IF expired(t[d], cutoff) THEN Absent ELSE t[d]],
         cleaned |-> Cardinality({d \in DOMAIN t : expired(t[d], cutoff)})]

InitSweep ==
    /\ job_type \in JobTypes
    /\ inputs = <<"a">>
    /\ files = <<FileOk>>
    /\ backend = IF job_type = "trellis" THEN "huggingface" ELSE None
    /\ runpod_endpoint = FALSE
    /\ runpod_api_key = FALSE
    /\ gw_pc = "start"
    /\ ttl = 0
    /\ Fresh
    /\ fn = "StorageService"
    /\ arg \in StorageArgs
    /\ storage = StorageService(arg)
    /\ result = NoResult
    /\ disk = <<>>
    /\ now = 0
    /\ started = 0
    /\ NoClient
    /\ tree \in {t \in [JobDirs -> {Absent, 0}] : \A r \in 1..2 : t[<<Roots[r], "j1">>] = Absent}

sweep_frame == <<job_type, inputs, files, backend, runpod_endpoint, runpod_api_key,
                 fn, arg, disk, storage, upload_dir, output_dir, gw_snap,
                 w_pc, w_snap, w_i, w_err, d_vars, revoked,
                 hist, saved, response, client_vars>>

\* an update_job of the task: the record, when found, is rewritten and its
\* ttl armed
SwUpdate(args) ==
    /\ store' = IF job_found(store) THEN update_job(store, args) ELSE store
    /\ ttl' = IF job_found(store) THEN setex_ttl(ttl) ELSE ttl

\* POST /jobs/rembg or /jobs/trellis: save_uploads writes into uploads/<id>
SwSaveUploads ==
    /\ gw_pc = "start"
    /\ tree' = [tree EXCEPT ![<<Roots[1], "j1">>] = now]
    /\ started' = now
    /\ gw_pc' = "saved"
    /\ UNCHANGED <<sweep_frame, store, ttl, task, now, result, output_files, w_out>>

\* the rest of the handler: create_job, get_job_output_dir makes
\* outputs/<id>, delay, update_job
SwCreateJob ==
    /\ gw_pc = "saved"
    /\ tree' = [tree EXCEPT ![<<Roots[2], "j1">>] = now]
    /\ store' = update_job(create_job(job_type, Len(inputs), inputs),
                           [celery_task_id |-> TaskId])
    /\ ttl' = setex_ttl(ttl)
    /\ task' = [task EXCEPT !.state = "queued"]
    /\ gw_pc' = "done"
    /\ started' = 0
    /\ UNCHANGED <<sweep_frame, now, result, output_files, w_out>>

\* a worker takes the task: set_processing
SwTaskStart ==
    /\ task.state = "queued"
    /\ task' = [task EXCEPT !.state = "running"]
    /\ started' = now
    /\ SwUpdate(set_processing_args(TaskId))
    /\ UNCHANGED <<sweep_frame, gw_pc, now, tree, result, output_files, w_out>>

\* the mtime of a directory after a file of the given name was written into
\* it: making the directory or a new entry sets it, writing over a file that
\* is there leaves it
mtime_after_write(mtime, names, name, clock) ==
    IF mtime = Absent \/ name \notin names THEN clock ELSE mtime

\* the backend returns: the output is written into outputs/<id>, which is
\* made again when missing
SwTaskWrite ==
    /\ task.state = "running"
    /\ w_out = <<>>
    /\ tree[<<Roots[1], "j1">>] # Absent
    /\ LET name == output_name(inputs[1])
           here == IF tree[<<Roots[2], "j1">>] = Absent THEN {} ELSE output_files
       IN  /\ tree' = [tree EXCEPT ![<<Roots[2], "j1">>] =
                           mtime_after_write(@, here, name, now)]
           /\ output_files' = here \cup {name}
           /\ w_out' = <<name>>
    /\ UNCHANGED <<sweep_frame, gw_pc, task, store, ttl, now, started, result>>

\* the attempt returns: set_completed with the output paths
SwTaskSucceed ==
    /\ task.state = "running"
    /\ w_out # <<>>
    /\ task' = [task EXCEPT !.state = "succeeded"]
    /\ SwUpdate(set_completed_args(Len(w_out), w_out, completed_message))
    /\ w_out' = <<>>
    /\ started' = 0
    /\ UNCHANGED <<sweep_frame, gw_pc, now, tree, result, output_files>>

\* the attempt raises (always when the uploads are gone): self.retry after
\* update_job(message="Retrying..."), or set_failed
SwTaskRaise ==
    /\ task.state = "running"
    /\ w_out = <<>>
    /\ IF should_retry(task.retries, job_type)
       THEN /\ task' = [task EXCEPT !.state = "queued", !.retries = @ + 1]
            /\ SwUpdate([message |-> "Retrying"])
       ELSE /\ task' = [task EXCEPT !.state = "failed"]
            /\ SwUpdate(set_failed_args("boom"))
    /\ started' = 0
    /\ UNCHANGED <<sweep_frame, gw_pc, now, tree, result, output_files, w_out>>

\* the worker process dies inside the attempt, before or after the output
\* was written; the message is queued again (task_reject_on_worker_lost)
SwWorkerLost ==
    /\ task.state = "running"
    /\ task.redelivered < MaxRedeliver
    /\ task' = [task EXCEPT !.state = "queued", !.redelivered = @ + 1]
    /\ w_out' = <<>>
    /\ started' = 0
    /\ UNCHANGED <<sweep_frame, gw_pc, store, ttl, now, tree, result, output_files>>

\* the clock advances; the key of the record expires when its ttl runs out.
\* A request handler and an attempt of a task, bounded by the time limits of
\* the task, last less than a tick: the clock advances at most once in them.
SwTick ==
    /\ now < MaxNow
    /\ (gw_pc = "saved" \/ task.state = "running") => started = now
    /\ now' = now + 1
    /\ ttl' = IF ttl > 0 THEN ttl - 1 ELSE 0
    /\ store' = IF ttl = 1 THEN NoJob ELSE store
    /\ UNCHANGED <<sweep_frame, gw_pc, task, tree, started, result, output_files, w_out>>

\* the files of outputs/<id> that are left in the tree t
files_left(t, names) == IF t[<<Roots[2], "j1">>] = Absent THEN {} ELSE names

\* cleanup_expired_jobs, the beat task: storage.cleanup_old_jobs()
SwSweep ==
    /\ tree' = cleanup_old_jobs(tree, storage, now).tree
    /\ output_files' = files_left(tree', output_files)
    /\ result' = [call |-> "cleanup_old_jobs", job_id |-> None,
                  returned |-> cleanup_old_jobs(tree, storage, now).cleaned > 0,
                  cleaned |-> cleanup_old_jobs(tree, storage, now).cleaned]
    /\ UNCHANGED <<sweep_frame, gw_pc, task, store, ttl, now, started, w_out>>

\* storage.cleanup_job(job_id), of cleanup_specific_job and of DELETE
SwCleanupJob ==
    /\ \E j \in JobIds :
          /\ tree' = cleanup_job(tree, j).tree
          /\ output_files' = files_left(tree', output_files)
          /\ result' = [call |-> "cleanup_job", job_id |-> j,
                        returned |-> cleanup_job(tree, j).cleaned, cleaned |-> 0]
    /\ UNCHANGED <<sweep_frame, gw_pc, task, store, ttl, now, started, w_out>>

NextSweep ==
    \/ SwSaveUploads \/ SwCreateJob \/ SwTaskStart \/ SwTaskWrite \/ SwTaskSucceed
    \/ SwTaskRaise \/ SwWorkerLost \/ SwTick \/ SwSweep \/ SwCleanupJob

SpecSweep == InitSweep /\ [][NextSweep]_vars

\* ============================================ the TRELLIS backends of a task
\* process_trellis from its start to its return, a step of the backend
\* client at a time; nothing else writes to the record.

\* what GET /status/<id> of the endpoint reports; TIMED_OUT is a status the
\* client has no branch for
RemoteStatuses == {"IN_QUEUE", "IN_PROGRESS", "COMPLETED", "FAILED", "CANCELLED", "TIMED_OUT"}

\* the record when the task is queued: create_job and the token of the task
QueuedRecord == update_job(create_job(job_type, Len(inputs), inputs),
                           [celery_task_id |-> TaskId])

\* the updates of process_trellis before the backend is called
StartedRecord(job_data) ==
    update_job(update_job(update_job(job_data, set_processing_args(TaskId)),
                          [message |-> "Connecting to TRELLIS model", progress |-> 10]),
               [message |-> "Processing images with TRELLIS", progress |-> 30])

\* a line of the log of the worker, with the attempt that wrote it
LogLine(text) == [attempt |-> task.retries, text |-> text]

InitBackend ==
    /\ job_type = "trellis"
    /\ inputs \in InputChoices
    /\ files = [i \in 1..Len(inputs) |-> FileOk]
    /\ backend \in TrellisBackend
    /\ runpod_endpoint \in BOOLEAN
    /\ runpod_api_key \in BOOLEAN
    /\ gw_pc = "start"
    /\ ttl = TtlTicks
    /\ Fresh
    /\ fn = None
    /\ arg = NoArg
    /\ result = NoResult
    /\ disk = <<>>
    /\ NoSweep
    /\ NoClient

backend_frame == <<job_type, inputs, files, backend, runpod_endpoint, runpod_api_key,
                   call_vars, sweep_vars, side_vars, gw_snap, w_snap, w_i, d_vars, revoked, hist>>

\* POST /jobs/trellis: the uploads are saved, the record is created and the
\* task is queued
BkPost ==
    /\ gw_pc = "start"
    /\ upload_dir' = TRUE
    /\ output_dir' = TRUE
    /\ store' = QueuedRecord
    /\ task' = [task EXCEPT !.state = "queued"]
    /\ gw_pc' = "done"
    /\ UNCHANGED <<backend_frame, output_files, w_pc, w_out, w_err, remote, log>>

\* process_trellis: set_processing and the two progress updates
BkTaskStart ==
    /\ task.state = "queued"
    /\ w_pc = "idle"
    /\ task' = [task EXCEPT !.state = "running"]
    /\ store' = StartedRecord(store)
    /\ w_pc' = "process"
    /\ UNCHANGED <<backend_frame, file_vars, gw_pc, w_out, w_err, remote, log>>

\* the step ends with an exception
BkRaise(text) ==
    /\ w_pc' = "raised"
    /\ w_err' = text

\* TrellisService.process: get_client, and for the v2 client its constructor;
\* the v1 client chooses by the number of images
BkGetClient ==
    /\ w_pc = "process"
    /\ IF backend = "huggingface"
       THEN /\ w_pc' = IF Len(inputs) = 1 THEN "single" ELSE "multi"
            /\ w_err' = w_err
       ELSE IF ~runpod_endpoint \/ ~runpod_api_key
            THEN BkRaise("boom")
            ELSE /\ w_pc' = "submit"
                 /\ w_err' = w_err
    /\ UNCHANGED <<backend_frame, file_vars, gw_pc, store, task, w_out, remote, log>>

\* TrellisV1Client.process_multi: predict and _extract_glb_path inside the
\* try, whose except logs a warning and calls process_single with the first
\* image; then the copy of the file
BkMulti ==
    /\ w_pc = "multi"
    /\ \E predicted \in Predicted \cup {[type |-> "raise"]}, copied \in BOOLEAN :
          IF predicted.type = "raise" \/ "raised" \in DOMAIN extract_glb_path(predicted)
          THEN /\ log' = log \cup {LogLine("falling back to single image")}
               /\ w_pc' = "single"
               /\ UNCHANGED <<w_out, w_err>>
          ELSE /\ log' = log
               /\ IF copied
                  THEN /\ w_pc' = "returned"
                       /\ w_out' = <<GlbName>>
                       /\ w_err' = w_err
                  ELSE /\ BkRaise("boom")
                       /\ w_out' = w_out
    /\ output_files' = IF w_pc' = "returned" THEN {GlbName} ELSE output_files
    /\ UNCHANGED <<backend_frame, upload_dir, output_dir, gw_pc, store, task, remote>>

\* TrellisV1Client.process_single: predict, _extract_glb_path, copy
BkSingle ==
    /\ w_pc = "single"
    /\ \E predicted \in Predicted \cup {[type |-> "raise"]}, copied \in BOOLEAN :
          IF /\ predicted.type # "raise"
             /\ "returned" \in DOMAIN extract_glb_path(predicted)
             /\ copied
          THEN /\ w_pc' = "returned"
               /\ w_out' = <<GlbName>>
               /\ w_err' = w_err
          ELSE /\ BkRaise("boom")
               /\ w_out' = w_out
    /\ output_files' = IF w_pc' = "returned" THEN {GlbName} ELSE output_files
    /\ UNCHANGED <<backend_frame, upload_dir, output_dir, gw_pc, store, task, remote, log>>

\* TrellisV2Client._process_async: POST /run, raise_for_status, the job id
BkSubmit ==
    /\ w_pc = "submit"
    /\ \E accepted \in BOOLEAN :
          IF accepted
          THEN /\ remote' = "IN_QUEUE"
               /\ w_pc' = "poll"
               /\ w_err' = w_err
          ELSE /\ remote' = remote
               /\ BkRaise("boom")
    /\ UNCHANGED <<backend_frame, file_vars, gw_pc, store, task, w_out, log>>

\* the endpoint: the status of the remote job changes
BkRemote ==
    /\ w_pc \in {"poll", "sleep"}
    /\ remote \in {"IN_QUEUE", "IN_PROGRESS"}
    /\ remote' \in RemoteStatuses \ {"IN_QUEUE", remote}
    /\ UNCHANGED <<backend_frame, file_vars, gw_pc, store, task, w_pc, w_out, w_err, log>>

\* _poll_result, one pass of `while True` up to the sleep: GET /status/<id>
\* and the branches on the status; the GLB is decoded and written on return
BkPoll ==
    /\ w_pc = "poll"
    /\ \E ok \in BOOLEAN :
          IF ~ok THEN BkRaise("boom") /\ UNCHANGED <<w_out, log>>
          ELSE IF remote = "COMPLETED"
          THEN \E glb_data \in BOOLEAN :
                  IF glb_data
                  THEN w_pc' = "returned" /\ w_out' = <<GlbName>> /\ UNCHANGED <<w_err, log>>
                  ELSE BkRaise("boom") /\ UNCHANGED <<w_out, log>>
          ELSE IF remote \in {"FAILED", "CANCELLED"}
          THEN BkRaise("boom") /\ UNCHANGED <<w_out, log>>
          ELSE IF remote \in {"IN_QUEUE", "IN_PROGRESS"}
          THEN w_pc' = "sleep" /\ UNCHANGED <<w_out, w_err, log>>
          ELSE /\ w_pc' = "sleep"
               /\ log' = log \cup {LogLine("Unknown status")}
               /\ UNCHANGED <<w_out, w_err>>
    /\ output_files' = IF w_pc' = "returned" THEN {GlbName} ELSE output_files
    /\ UNCHANGED <<backend_frame, upload_dir, output_dir, gw_pc, store, task, remote>>

\* _poll_result: `await asyncio.sleep(poll_interval)` is over
BkSleep ==
    /\ w_pc = "sleep"
    /\ w_pc' = "poll"
    /\ UNCHANGED <<backend_frame, file_vars, gw_pc, store, task, w_out, w_err, remote, log>>

\* the soft time limit of the task, which a prefork worker raises inside the
\* backend call
BkSoftTimeLimit ==
    /\ w_pc \in {"single", "multi", "submit", "poll", "sleep"}
    /\ BkRaise("boom")
    /\ UNCHANGED <<backend_frame, file_vars, gw_pc, store, task, w_out, remote, log>>

\* process_trellis after the backend returned: set_completed
BkCompleted ==
    /\ w_pc = "returned"
    /\ store' = update_job(store, set_completed_args(1, w_out, completed_message))
    /\ task' = [task EXCEPT !.state = "succeeded"]
    /\ w_pc' = "done"
    /\ UNCHANGED <<backend_frame, file_vars, gw_pc, w_out, w_err, remote, log>>

\* process_trellis, `except Exception`: the retry or set_failed
BkExcept ==
    /\ w_pc = "raised"
    /\ IF should_retry(task.retries, job_type)
       THEN /\ store' = update_job(store, [message |-> "Retrying"])
            /\ task' = [task EXCEPT !.state = "queued", !.retries = @ + 1]
            /\ w_pc' = "idle"
       ELSE /\ store' = update_job(store, set_failed_args(w_err))
            /\ task' = [task EXCEPT !.state = "failed"]
            /\ w_pc' = "done"
    /\ w_err' = None
    /\ remote' = None
    /\ UNCHANGED <<backend_frame, file_vars, gw_pc, w_out, log>>

\* the steps of the worker process
BkWorker ==
    \/ BkTaskStart \/ BkGetClient \/ BkMulti \/ BkSingle \/ BkSubmit \/ BkPoll
    \/ BkSleep \/ BkCompleted \/ BkExcept

NextBackend == BkPost \/ BkWorker \/ BkRemote \/ BkSoftTimeLimit

SpecBackend == InitBackend /\ [][NextBackend]_vars

\* the worker process keeps running: a step of it that stays possible is
\* taken. Neither the endpoint nor the time limit, which only a prefork
\* worker delivers, is bound to act.
SpecBackendFair == SpecBackend /\ WF_vars(BkWorker)

\* ================== DELETE of a job whose POST handler has not returned yet
\* The DELETE handler takes any job id.  Here a request for the id of the job
\* also arrives in the window of the POST handler between delay() and the
\* setex of update_job(job_id, celery_task_id=task.id).
InitEarly ==
    /\ job_type \in JobTypes
    /\ inputs = <<"a">>
    /\ files = <<FileOk>>
    /\ backend = IF job_type = "trellis" THEN "huggingface" ELSE None
    /\ runpod_endpoint = FALSE
    /\ runpod_api_key = FALSE
    /\ gw_pc = "start"
    /\ ttl = TtlTicks
    /\ Fresh
    /\ NoCalls

\* job_store.get_job of the DELETE handler, inside the window
DelGetJobEarly ==
    /\ d_pc = "idle"
    /\ gw_pc \in {"enqueued", "token_write"}
    /\ hist.deletes < MaxDeletes
    /\ IF job_exists(store)
       THEN /\ d_job' = [status |-> store.status, celery_task_id |-> store.celery_task_id]
            /\ d_pc' = "revoke"
            /\ hist' = hist
       ELSE /\ d_job' = NoJob
            /\ d_pc' = "idle"
            /\ hist' = Hist([deletes |-> hist.deletes + 1])
    /\ UNCHANGED <<request_vars, side_vars, store, file_vars, gw_vars, task, w_vars,
                   d_snap, revoked>>

NextEarly == Gateway \/ Worker \/ RevokeActs \/ DelGetJobEarly \/ Delete

SpecEarly == InitEarly /\ [][NextEarly]_vars

\* ============================== the API key of a request, and GET /health
\* settings.api_keys_list: the keys of API_KEYS, split at commas
api_keys_list == {"k1", "k2"}

\* a header the request does not carry
NoHeader == [absent |-> TRUE]
\* HTTPBearer found no bearer credentials
NoCredentials == [none |-> TRUE]

Bearer == <<"B", "e", "a", "r", "e", "r">>
bearer == <<"b", "e", "a", "r", "e", "r">>
Basic == <<"B", "a", "s", "i", "c">>

\* the Authorization header, split at the first space into scheme and
\* credentials, and the X-API-Key header
AuthorizationHeaders ==
    {NoHeader} \cup [scheme : {Bearer, bearer, Basic}, credentials : {"k1", "bad", ""}]
ApiKeyHeaders == {NoHeader} \cup [value : {"k1", "k2", "bad", ""}]

\* the endpoints under /api/v1/jobs
JobEndpoints == {"post", "get_job_status", "download_file", "delete_job"}
\* redis ping: the reply, or the error of an unreachable server
PingResults == {"PONG", "ConnectionError"}
\* celery_app.control.inspect().active(): None when no worker replies, the
\* replies by worker name, or an error
ActiveResults ==
    {[none |-> TRUE], [raised |-> TRUE]} \cup [reply : SUBSET {"w1", "w2"}]

\* str.lower of a text
lower_text(s) == [i \in 1..Len(s) |-> lower(s[i])]

\* HTTPBearer(auto_error=False): the credentials of a bearer Authorization
\* header, None for every other request
HTTPBearer(authorization) ==
    IF authorization = NoHeader THEN NoCredentials
    ELSE IF authorization.scheme = <<>> \/ authorization.credentials = "" THEN NoCredentials
    ELSE IF lower_text(authorization.scheme) # bearer THEN NoCredentials
    ELSE authorization

\* APIKeyValidator.validate
validate(api_key) ==
    IF api_key \in api_keys_list
    THEN Returned([key_id |-> "env", tier |-> "standard"])
    ELSE Raised([status_code |-> 401, detail |-> "Invalid API key"])

\* get_api_key: the bearer token when there is one, else X-API-Key
get_api_key(request) ==
    LET credentials == HTTPBearer(request.authorization)
        x_api_key == request.x_api_key
    IN  IF credentials = NoCredentials
        THEN IF x_api_key # NoHeader /\ x_api_key.value # ""
             THEN validate(x_api_key.value)
             ELSE Raised([status_code |-> 401, detail |-> "Missing API key"])
        ELSE validate(credentials.credentials)

\* JobStore.health_check: ping, False on any error
health_check(ping) == ping = "PONG"

\* len(active) of the workers that replied, 0 without a reply or on an error
celery_workers(active) ==
    IF "reply" \in DOMAIN active THEN Cardinality(active.reply) ELSE 0

\* health_check of the router: the HealthResponse
HealthResponse(ping, active) ==
    [status |-> IF health_check(ping) THEN "healthy" ELSE "degraded",
     redis_connected |-> health_check(ping),
     celery_workers |-> celery_workers(active)]

api_frame == <<job_type, inputs, files, backend, runpod_endpoint, runpod_api_key,
               disk, sweep_vars, client_vars, gw_snap, w_vars, d_vars, hist, saved, ttl>>

InitApi ==
    /\ job_type \in JobTypes
    /\ inputs = <<"a">>
    /\ files = <<FileOk>>
    /\ backend = IF job_type = "trellis" THEN "huggingface" ELSE None
    /\ runpod_endpoint = FALSE
    /\ runpod_api_key = FALSE
    /\ gw_pc = "start"
    /\ ttl = TtlTicks
    /\ Fresh
    /\ NoCalls

\* a request to a job endpoint arrives with its headers
ApiRequest ==
    /\ fn = None
    /\ \E endpoint \in JobEndpoints, authorization \in AuthorizationHeaders,
          x_api_key \in ApiKeyHeaders :
          /\ endpoint = "post" => gw_pc = "start"
          /\ fn' = endpoint
          /\ arg' = [authorization |-> authorization, x_api_key |-> x_api_key]
    /\ result' = NoResult
    /\ UNCHANGED <<api_frame, store, file_vars, task, gw_pc, revoked, response>>

\* Depends(get_api_key): its HTTPException is the 401 response
ApiGetApiKey ==
    /\ fn \in JobEndpoints
    /\ result = NoResult
    /\ result' = get_api_key(arg)
    /\ IF "raised" \in DOMAIN result'
       THEN /\ response' = [request |-> fn, code |-> result'.raised.status_code]
            /\ fn' = None
       ELSE UNCHANGED <<response, fn>>
    /\ UNCHANGED <<api_frame, arg, store, file_vars, task, gw_pc, revoked>>

\* the body of the endpoint, the request as a whole
ApiHandler ==
    /\ fn \in JobEndpoints
    /\ "returned" \in DOMAIN result
    /\ CASE fn = "post" ->
              /\ store' = update_job(create_job(job_type, Len(inputs), inputs),
                                     [celery_task_id |-> TaskId])
              /\ upload_dir' = TRUE
              /\ output_dir' = TRUE
              /\ task' = [task EXCEPT !.state = "queued"]
              /\ gw_pc' = "done"
              /\ response' = [request |-> fn, code |-> 200]
              /\ UNCHANGED <<output_files, revoked>>
         [] fn = "get_job_status" ->
              /\ response' = [request |-> fn, code |-> IF job_exists(store) THEN 200 ELSE 404]
              /\ UNCHANGED <<store, file_vars, task, gw_pc, revoked>>
         [] fn = "download_file" ->
              /\ response' = [request |-> fn, code |-> download_code(store, output_files # {})]
              /\ UNCHANGED <<store, file_vars, task, gw_pc, revoked>>
         [] fn = "delete_job" ->
              IF job_exists(store)
              THEN /\ revoked' = (revoked \/ store.celery_task_id # None)
                   /\ store' = NoJob
                   /\ upload_dir' = FALSE
                   /\ output_dir' = FALSE
                   /\ output_files' = {}
                   /\ response' = [request |-> fn, code |-> 200]
                   /\ UNCHANGED <<task, gw_pc>>
              ELSE /\ response' = [request |-> fn, code |-> 404]
                   /\ UNCHANGED <<store, file_vars, task, gw_pc, revoked>>
    /\ fn' = None
    /\ UNCHANGED <<api_frame, arg, result>>

\* GET /health arrives; what the ping and the inspection will give
ApiHealthRequest ==
    /\ fn = None
    /\ \E ping \in PingResults, active \in ActiveResults :
          arg' = [ping |-> ping, active |-> active]
    /\ fn' = "health_check"
    /\ result' = NoResult
    /\ UNCHANGED <<api_frame, store, file_vars, task, gw_pc, revoked, response>>

\* health_check of the router
ApiHealthCheck ==
    /\ fn = "health_check"
    /\ result' = Returned(HealthResponse(arg.ping, arg.active))
    /\ response' = [request |-> fn, code |-> 200]
    /\ fn' = None
    /\ UNCHANGED <<api_frame, arg, store, file_vars, task, gw_pc, revoked>>

NextApi ==
    \/ ApiRequest \/ ApiGetApiKey \/ ApiHandler
    \/ ApiHealthRequest \/ ApiHealthCheck

SpecApi == InitApi /\ [][NextApi]_vars

\* ================================================================ properties
Exists(job_data) == job_data # NoJob

\* nothing but a client request or the expiry of the record can act any more
Quiescent ==
    /\ gw_pc = "done"
    /\ w_pc = "idle"
    /\ d_pc = "idle"
    /\ task.state \notin {"none", "queued", "running"}

\* positions of the worker at the read and at the setex of an update_job
WReadPcs == {"sp_read", "connect_read", "p30_read", "cb_read", "done_read",
             "retry_read", "fail_read"}
WWritePcs == {"sp_write", "connect_write", "p30_write", "cb_write", "done_write",
              "retry_write", "fail_write"}

\* C1: in every state of a job record, completed_at is non-null if and only
\* if status is completed, failed or cancelled.
C1_CompletedAtIffTerminal ==
    Exists(store) => ((store.completed_at # None) <=> (store.status \in Terminal))

\* C2: once the status of a record is completed, failed or cancelled, no step
\* changes the status while the record exists.
C2_TerminalIsFinal ==
    [][(Exists(store) /\ store.status \in Terminal /\ Exists(store'))
         => store'.status = store.status]_vars

StateMachineEdges ==
    {<<PENDING, PROCESSING>>, <<PROCESSING, COMPLETED>>, <<PROCESSING, FAILED>>,
     <<PENDING, CANCELLED>>, <<PROCESSING, CANCELLED>>}

\* C3: every change of the status of a record follows an edge of the state
\* machine pending -> processing -> {completed | failed},
\* {pending, processing} -> cancelled.
C3_StatusFollowsEdges ==
    [][(Exists(store) /\ Exists(store') /\ store'.status # store.status)
         => <<store.status, store'.status>> \in StateMachineEdges]_vars

\* C4: when the backend failed on every attempt (no worker was lost), the
\* set_failed write happens after exactly max_retries + 1 backend invocations
\* and leaves status failed with a non-empty error string, and the count of
\* invocations stays max_retries + 1 once the task has ended failed.
C4_RetryBound ==
    /\ [][(w_pc = "fail_write" /\ w_pc' = "return_failed"
            /\ ~hist.succeeded /\ task.redelivered = 0)
           => /\ hist.attempts = max_retries(job_type) + 1
              /\ store'.status = FAILED
              /\ store'.error \notin {None, ""}]_vars
    /\ []((task.state = "failed" /\ ~hist.succeeded /\ task.redelivered = 0)
           => hist.attempts = max_retries(job_type) + 1)

\* C5: after the hard time limit killed the worker during or after the
\* backend call, the record (as long as it exists) has status failed once
\* nothing is left to run for the job.
C5_HardLimitEndsFailed ==
    (task.state = "timed_out" /\ hist.attempts > 0 /\ Quiescent /\ Exists(store))
      => store.status = FAILED

\* C6: after a DELETE of a processing job with a dispatch token has returned
\* success, revoke was called once, the record is absent and neither
\* uploads/<id> nor outputs/<id> exists, in every later state.
C6_DeletedStaysDeleted ==
    hist.deleted_live
      => (hist.revoke_calls = 1 /\ ~Exists(store) /\ ~upload_dir /\ ~output_dir)

\* C7: the set_cancelled write of a DELETE request does not change the status
\* of a record that set_completed has already made completed.
C7_CancelKeepsCompleted ==
    [][(d_pc = "cancel_write" /\ d_pc' = "cleanup"
         /\ Exists(store) /\ store.status = COMPLETED)
         => store'.status = COMPLETED]_vars

\* C8: an update_job (set_processing, set_completed, set_failed, set_cancelled
\* included) that finds no record returns without a write and leaves the
\* store unchanged; a record appears only by create_job or by the setex of an
\* update_job whose read had found the record.
C8_UpdateOfMissingJobIsNoop ==
    [][/\ (w_pc \in WReadPcs /\ w_pc' \notin {w_pc, "idle"} /\ ~Exists(store))
            => (w_pc' \notin WWritePcs /\ store' = store)
       /\ (gw_pc = "enqueued" /\ gw_pc' # gw_pc /\ ~Exists(store))
            => (gw_pc' = "done" /\ store' = store)
       /\ (d_pc = "cancel_read" /\ d_pc' # d_pc /\ ~Exists(store))
            => (d_pc' = "cleanup" /\ store' = store)
       /\ (~Exists(store) /\ Exists(store'))
            => \/ gw_pc = "saved" /\ gw_pc' = "created"
               \/ w_pc \in WWritePcs /\ w_pc' # w_pc /\ Exists(w_snap)
               \/ gw_pc = "token_write" /\ gw_pc' = "done" /\ Exists(gw_snap)
               \/ d_pc = "cancel_write" /\ d_pc' = "cleanup" /\ Exists(d_snap)]_vars

\* C8 witness: an update_job of the worker returned None and there is no record
C8_Witness == hist.missed /\ ~Exists(store) /\ w_pc = "return_failed"

\* the task body was left by its own code (not killed, not lost)
LeftByCode ==
    /\ w_pc # "idle"
    /\ w_pc' = "idle"
    /\ task'.state \notin {"timed_out", "revoked"}
    /\ task'.redelivered = task.redelivered

\* C9: a task execution in which the backend raised ends either with a retry
\* scheduled or after set_failed, whose write (skipped only when the record
\* is gone) stores status failed and the error text.
C9_BackendErrorsAreHandled ==
    [][/\ (LeftByCode /\ w_err # None)
            => \/ task'.state = "queued" /\ task'.retries = task.retries + 1
               \/ w_pc = "return_failed" /\ task'.state = "failed"
       /\ (w_pc = "fail_write" /\ w_pc' = "return_failed")
            => (store'.status = FAILED /\ store'.error = w_err)
       /\ (w_pc = "fail_read" /\ w_pc' = "return_failed") => ~Exists(store)]_vars

\* C9 witness: the last attempt raised and the record is failed with the text
C9_Witness ==
    /\ task.state = "failed"
    /\ task.retries = max_retries(job_type)
    /\ Exists(store)
    /\ store.status = FAILED
    /\ store.error = "boom"

\* C10: in every state, a record whose status is completed has progress 100
\* and output_count equal to the length of download_urls.
C10_CompletedHasFullProgress ==
    (Exists(store) /\ store.status = COMPLETED)
      => (store.progress = 100 /\ store.output_count = Len(store.download_urls))

\* C11: in every state, the progress of a record is 100 if and only if its
\* status is completed.
C11_ProgressFullIffCompleted ==
    Exists(store) => ((store.progress = 100) <=> (store.status = COMPLETED))

\* C12: with no redelivery, a setex of the worker on a record that is and
\* stays non-terminal does not decrease the progress of the record; the
\* attempts after a retry are included.
C12_ProgressMonotone ==
    [][(Exists(store) /\ Exists(store')
         /\ w_pc \in WWritePcs /\ w_pc' # w_pc /\ task.redelivered = 0
         /\ store.status \notin Terminal /\ store'.status \notin Terminal)
         => store'.progress >= store.progress]_vars

\* the dispatch unit is queued, executing or awaiting its retry
UnitActive == task.state \in {"queued", "running"}

\* C13: once the POST handler has enqueued the task, and while no DELETE
\* request is being handled, a record whose status is pending or processing
\* has its dispatch unit active, and the record's celery_task_id, once set,
\* is the id of that unit.
C13_OneActiveUnit ==
    (Exists(store) /\ store.status \in {PENDING, PROCESSING}
       /\ gw_pc \in {"enqueued", "token_write", "done"} /\ d_pc = "idle")
      => (UnitActive /\ store.celery_task_id \in {None, TaskId})

\* C18: after a failed attempt has scheduled a retry and until the last
\* attempt has written its result, with no redelivery and no DELETE request,
\* the status of the record is processing.
C18_ProcessingDuringRetries ==
    (Exists(store) /\ task.retries >= 1 /\ UnitActive
       /\ w_pc \notin {"return_ok", "return_failed"}
       /\ task.redelivered = 0 /\ hist.deletes = 0 /\ d_pc = "idle")
      => store.status = PROCESSING

\* C19: the setex of the POST handler's update_job(celery_task_id) and the
\* setex of the DELETE handler's set_cancelled leave the error field of the
\* stored record as it was.
C19_GatewayKeepsError ==
    [][(Exists(store)
         /\ \/ gw_pc = "token_write" /\ gw_pc' = "done"
            \/ d_pc = "cancel_write" /\ d_pc' = "cleanup")
         => store'.error = store.error]_vars

\* C16: after a DELETE request has returned 200, a later DELETE request for
\* the same id finds no record (404) and changes nothing.
C16_SecondDeleteNotFound ==
    [][(hist.deleted /\ d_pc = "idle" /\ d_pc' # d_pc) => FALSE]_vars

\* the handler is past a revoke call that raised: the record it read has a
\* token and no revoke was ever broadcast
RevokeRaised == d_pc # "idle" /\ d_pc # "revoke" /\ d_job.celery_task_id # None /\ ~revoked

\* C17: when the revoke call of a DELETE request raises, the handler goes on:
\* it calls set_cancelled for a pending or processing job, whose setex stores
\* status cancelled, it removes both directories, deletes the record and
\* returns 200.
C17_RevokeFailureNotFatal ==
    [][/\ (d_pc = "revoke" /\ d_pc' # d_pc /\ d_job.celery_task_id # None /\ ~revoked')
            => d_pc' = (IF cancellable(d_job) THEN "cancel_read" ELSE "cleanup")
       /\ (RevokeRaised /\ d_pc = "cancel_read" /\ d_pc' # d_pc)
            => d_pc' \in {"cancel_write", "cleanup"}
       /\ (RevokeRaised /\ d_pc = "cancel_write" /\ d_pc' # d_pc)
            => (d_pc' = "cleanup" /\ store'.status = CANCELLED)
       /\ (RevokeRaised /\ d_pc = "cleanup" /\ d_pc' # d_pc)
            => (d_pc' = "delete" /\ ~upload_dir' /\ ~output_dir')
       /\ (RevokeRaised /\ d_pc = "delete" /\ d_pc' # d_pc)
            => (d_pc' = "idle" /\ ~Exists(store') /\ hist'.deleted
                /\ hist'.deletes = hist.deletes + 1)]_vars

\* C17 witness: the only revoke call raised and that DELETE request returned
\* 200 with the record and both directories gone
C17_Witness ==
    /\ hist.revoke_calls = 1
    /\ ~revoked
    /\ hist.deleted
    /\ d_pc = "idle"
    /\ ~Exists(store)
    /\ ~upload_dir
    /\ ~output_dir

\* the request names a remote backend whose endpoint or API key is not set
Unconfigured ==
    /\ job_type = "trellis"
    /\ backend \in {"runpod", "modal"}
    /\ ~runpod_endpoint \/ ~runpod_api_key

\* no record was created and no task was enqueued, and the answer, once
\* given, is a 4xx
Rejected ==
    /\ ~Exists(store)
    /\ task.state = "none"
    /\ response # NoResponse => response.code \in 400..499

\* C14: a POST /jobs/trellis request that names a remote backend whose
\* endpoint or API key is not configured is answered with a 4xx, creates no
\* record and enqueues no task.
C14_UnconfiguredBackendRejected == Unconfigured => Rejected

\* the request fails one of the validations of the upload endpoints
InvalidRequest ==
    \/ Len(files) = 0
    \/ Len(files) > max_files_per_request
    \/ \E i \in 1..Len(files) :
          \/ files[i].filename = NoText
          \/ files[i].filename[2] \notin SUPPORTED_FORMATS
          \/ files[i].content_type \notin {NoText, <<"image", "png">>}
          \/ files[i].oversized
    \/ job_type = "trellis" /\ backend \notin TrellisBackend

\* C15: an upload request that fails validation is answered with a 4xx;
\* create_job is not called for it and no task is enqueued.
C15_InvalidUploadRejected == InvalidRequest => Rejected

\* C15 witness: a file was rejected by save_uploads and the 400 was returned
C15_Witness ==
    /\ InvalidRequest
    /\ Len(files) \in 1..max_files_per_request
    /\ response = [request |-> "POST", code |-> 400]
    /\ upload_dir
    /\ Rejected

\* C20: each create_job and each setex of an update_job sets the expiry of
\* the record to the full ttl; when the expiry is reached the record is
\* absent; and for an absent record GET, download and DELETE answer 404 and
\* update_job returns without a write.
C20_RecordExpires ==
    /\ [](ttl = 0 <=> ~Exists(store))
    /\ [][/\ ((gw_pc = "start" /\ gw_pc' = "done") \/ (w_pc = "ttl_write" /\ w_pc' = "idle"))
               => (Exists(store') /\ ttl' = TtlTicks)
          /\ (~Exists(store) /\ response' # response) => response'.code = 404
          /\ (~Exists(store) /\ w_pc = "idle")
               => (w_pc' = "idle" /\ (Exists(store') => gw_pc = "start"))]_vars

\* C20 witness: the record expired (no DELETE was issued), an update_job then
\* returned None and GET answered 404
C20_Witness ==
    /\ gw_pc = "done"
    /\ ~hist.deleted
    /\ ~Exists(store)
    /\ ttl = 0
    /\ hist.missed
    /\ w_pc = "idle"
    /\ response = [request |-> "GET", code |-> 404]
\* ---------------------------------------------------- the storage service
\* the root directory of the role of a get_file_path call
RoleRoot == IF arg.is_output THEN StorageService_output_dir ELSE StorageService_upload_dir

\* the filename (or the job id) of the call leads out of the root of the role
Escapes ==
    ~is_relative_to(resolve(joinpath(joinpath(RoleRoot, arg.job_id), arg.filename)),
                    resolve(RoleRoot))

\* C23: get_file_path returns None, and raises nothing, when the filename
\* leads through parent directories to a place outside of the root directory
\* of the role, and every path it returns lies, once resolved, within the
\* root directory of the role.
C23_LookupStaysInRoot ==
    (fn = "get_file_path" /\ result # NoResult) =>
        /\ "raised" \notin DOMAIN result
        /\ Escapes => result = NoPath
        /\ "path" \in DOMAIN result
              => is_relative_to(resolve(result.path), resolve(RoleRoot))

\* a lookup of "../../../etc/passwd", a file that exists, has returned None
C23_Witness ==
    /\ fn = "get_file_path"
    /\ arg.job_id = Job1
    /\ arg.filename = <<".", ".", "/", ".", ".", "/", ".", ".", "/">> \o etc_passwd
    /\ exists(disk, joinpath(joinpath(RoleRoot, arg.job_id), arg.filename))
    /\ result = NoPath

\* every file of the upload directory of the job was written by the call
NewJobDir ==
    \A p \in DOMAIN disk :
        is_relative_to(p, joinpath(StorageService_upload_dir, arg.job_id))
            => disk[p] = Dir \/ disk[p] >= 1

\* C24: once save_uploads has returned for a job whose upload directory held
\* no file before, get_file_path(job_id, filename, is_output=False) with the
\* filename returned for an upload finds a file, and the file holds the bytes
\* of that upload.
C24_SavedFileIsFound ==
    (fn = "save_uploads" /\ "returned" \in DOMAIN result /\ NewJobDir) =>
        \A i \in 1..Len(arg.files) :
            LET found == get_file_path(disk, arg.job_id, result.returned.filenames[i], FALSE)
            IN  /\ found # NoPath
                /\ disk[resolve(found.path)] = arg.files[i].content

\* the name of a saved path is the sanitized name of the upload or that name
\* with _<number> between its stem and its suffix
Disambiguated(name, safe_filename, most) ==
    \/ name = safe_filename
    \/ \E k \in 1..most :
          name = path_stem(safe_filename) \o <<"_">> \o str(k) \o path_suffix(safe_filename)

\* C25: a save_uploads call that returns has written every upload to a path
\* of its own that held nothing before: the returned paths are as many as the
\* uploads and pairwise distinct, each is named after the sanitized filename
\* with at most a numeric suffix added, each holds the bytes of its upload,
\* and what was on the disk before is as it was.
C25_SavedPathsDistinct ==
    [][(fn = "save_uploads" /\ result = NoResult /\ "returned" \in DOMAIN result') =>
          LET saved_paths == result'.returned.saved_paths
          IN  /\ Len(saved_paths) = Len(arg.files)
              /\ \A i, j \in 1..Len(saved_paths) : i # j => saved_paths[i] # saved_paths[j]
              /\ \A i \in 1..Len(saved_paths) :
                    /\ saved_paths[i] \notin DOMAIN disk
                    /\ disk'[saved_paths[i]] = arg.files[i].content
                    /\ Disambiguated(saved_paths[i][Len(saved_paths[i])],
                                     sanitize_filename(arg.files[i].filename),
                                     Cardinality(DOMAIN disk'))
              /\ \A p \in DOMAIN disk : disk'[p] = disk[p]]_vars

\* three uploads, two of them named a.png, were saved next to an older a.png
C25_Witness ==
    /\ fn = "save_uploads"
    /\ "returned" \in DOMAIN result
    /\ Len(result.returned.saved_paths) = 3
    /\ arg.files[1].filename = a_png
    /\ arg.files[2].filename = a_png
    /\ disk[joinpath(joinpath(StorageService_upload_dir, Job1), a_png)] = 0

\* C26: the name _sanitize_filename returns is not empty, has only characters
\* of [A-Za-z0-9._-], so no path separator, is not the parent directory "..",
\* and is "unnamed" when the input has no last path component.
C26_SanitizedNameIsSafe ==
    (fn = "_sanitize_filename" /\ "returned" \in DOMAIN result) =>
        /\ result.returned # <<>>
        /\ \A i \in 1..Len(result.returned) :
              result.returned[i] \in safe_chars /\ result.returned[i] # "/"
        /\ result.returned # <<".", ".">>
        /\ path_name(arg.filename) = <<>>
              => result.returned = <<"u", "n", "n", "a", "m", "e", "d">>

\* the sweep of the beat schedule: the storage service built with defaults
PeriodicSweep == SwSweep /\ "cleanup_after_hours" \notin DOMAIN arg

\* C21: no run of the periodic cleanup_old_jobs removes the upload or the
\* output directory of a job whose record has status processing, be it in
\* its first attempt or in a retry.
C21_ProcessingJobNotSwept ==
    [][(PeriodicSweep /\ Exists(store) /\ store.status = PROCESSING) =>
          \A r \in 1..2 : tree'[<<Roots[r], "j1">>] = tree[<<Roots[r], "j1">>]]_vars

\* the ttl the storage service was configured with
ConfiguredTtl ==
    IF "cleanup_after_hours" \in DOMAIN arg THEN arg.cleanup_after_hours
    ELSE settings_cleanup_after_hours

\* C22: cleanup_old_jobs of a storage service configured with ttl removes
\* the job directories, of both roots, whose mtime is before now - ttl and
\* leaves every other as it is; so with ttl = 0 a directory with an mtime in
\* the past goes, and with a positive ttl a directory made just now stays.
C22_SweepRemovesExactlyExpired ==
    [][SwSweep =>
          \A d \in JobDirs :
              tree'[d] = IF tree[d] # Absent /\ tree[d] < now - ConfiguredTtl
                         THEN Absent ELSE tree[d]]_vars

\* C27: cleanup_job(job_id) leaves neither uploads/<job_id> nor
\* outputs/<job_id>, returns True exactly when one of the two existed, leaves
\* the directories of every other job as they are, and called once more at
\* once returns False and changes nothing.
C27_CleanupJobIdempotent ==
    [][SwCleanupJob =>
          /\ \A r \in 1..2 : tree'[<<Roots[r], result'.job_id>>] = Absent
          /\ result'.returned
                <=> (\E r \in 1..2 : tree[<<Roots[r], result'.job_id>>] # Absent)
          /\ \A d \in JobDirs : d[2] # result'.job_id => tree'[d] = tree[d]
          /\ ~cleanup_job(tree', result'.job_id).cleaned
          /\ cleanup_job(tree', result'.job_id).tree = tree']_vars

\* cleanup_job("j1") returned True: both directories of j1 are gone, the
\* upload directory of j2 is there
C27_Witness ==
    /\ "call" \in DOMAIN result
    /\ result.call = "cleanup_job"
    /\ result.job_id = "j1"
    /\ result.returned
    /\ \A r \in 1..2 : tree[<<Roots[r], "j1">>] = Absent
    /\ tree[<<Roots[1], "j2">>] # Absent

\* -------------------------------------------------------- the v1 backend
\* C30: _extract_glb_path returns, of a dict, the value of 'glb' when the key
\* is present and else the value of the first present key of output, file,
\* path, model; a str as it is; the first element of a tuple or list; and it
\* raises for a dict with none of the keys, for an empty tuple or list and for
\* every other type.
C30_ExtractPrecedence ==
    (fn = "_extract_glb_path" /\ result # NoResult) =>
        IF arg.result.type = "dict"
        THEN IF "glb" \in arg.result.keys THEN result = Returned(item("glb"))
             ELSE IF "output" \in arg.result.keys THEN result = Returned(item("output"))
             ELSE IF "file" \in arg.result.keys THEN result = Returned(item("file"))
             ELSE IF "path" \in arg.result.keys THEN result = Returned(item("path"))
             ELSE IF "model" \in arg.result.keys THEN result = Returned(item("model"))
             ELSE "raised" \in DOMAIN result
        ELSE IF arg.result.type = "str" THEN result = Returned(arg.result.value)
        ELSE IF arg.result.type \in {"tuple", "list"}
             THEN IF arg.result.items = <<>> THEN "raised" \in DOMAIN result
                  ELSE result = Returned(arg.result.items[1])
        ELSE "raised" \in DOMAIN result

\* a dict with the keys model, file and output and without glb gave the
\* value of output
C30_Witness ==
    /\ fn = "_extract_glb_path"
    /\ arg.result = [type |-> "dict", keys |-> {"model", "file", "output"}]
    /\ result = Returned(item("output"))

\* the log has the fallback warning of the current attempt
FellBack == LogLine("falling back to single image") \in log

\* the record of a job whose task ran the multi-image call and completed
PlainCompleted ==
    update_job(StartedRecord(QueuedRecord),
               set_completed_args(1, <<GlbName>>, completed_message))

\* C29: a job that process_multi completed by falling back to the first
\* image has a record that differs from the record of a job completed by
\* the multi-image call: the fallback is in the record, not only in the log.
C29_FallbackIsRecorded ==
    (Exists(store) /\ store.status = COMPLETED /\ FellBack) => store # PlainCompleted

\* -------------------------------------------------------- the v2 backend
\* C28: every execution of _poll_result ends: once the client polls, it
\* returns or raises at some later time, whatever the endpoint reports and
\* even when it reports IN_QUEUE, IN_PROGRESS or an unknown status for ever.
C28_PollingTerminates == (w_pc = "poll") ~> (w_pc \notin {"poll", "sleep"})

\* --------------------------------------------- what a task does and records
\* C35: a task whose set_processing finds no record (the job was deleted or
\* has expired) returns at once: it does not go on to the backend, writes no
\* output and schedules no retry.
C35_NoWorkWithoutRecord ==
    [][(w_pc = "sp_read" /\ ~job_found(store))
          => w_pc' \in {"sp_read", "idle", "return_ok", "return_failed"}]_vars

\* the record of a background-removal job says completed
RembgCompleted == Exists(store) /\ job_type = "rembg" /\ store.status = COMPLETED

\* C37: a background-removal job is completed only with one output per
\* input, output_count = input_count; when an image fails in process_batch
\* the job is retried or failed, never completed with fewer outputs.
C37_CompletedMeansAllOutputs ==
    RembgCompleted => store.output_count = store.input_count

\* C38: the download_urls of a completed background-removal job are pairwise
\* distinct, one output file each, also when saved inputs share a stem and
\* differ in extension (a.jpg and a.png).
C38_DownloadUrlsDistinct ==
    RembgCompleted =>
        /\ \A i, j \in 1..Len(store.download_urls) :
              i # j => store.download_urls[i] # store.download_urls[j]
        /\ Cardinality(output_files) >= Len(store.download_urls)

\* the record says completed and every file its download_urls name is in
\* outputs/<id>
CompletedWithFiles ==
    /\ Exists(store)
    /\ store.status = COMPLETED
    /\ tree[<<Roots[2], "j1">>] # Absent
    /\ \A i \in 1..Len(store.download_urls) : store.download_urls[i] \in output_files

\* C36: while the record of a job exists with status completed, the files its
\* download_urls name stay in outputs/<id>: no run of the periodic
\* cleanup_old_jobs removes them before the ttl of the record, re-armed by
\* every update, has run out.
C36_CompletedOutputsStay ==
    [][(PeriodicSweep /\ CompletedWithFiles) => CompletedWithFiles']_vars

\* C34: a DELETE that handles a job whose task has been enqueued issues a
\* revoke for the task, also when it reads the record after delay() returned
\* and before the token of the task is stored in the record.
C34_DeleteRevokesEnqueued ==
    [][(DelRevoke /\ task.state # "none")
          => hist'.revoke_calls = hist.revoke_calls + 1]_vars

\* ------------------------------------------ what a failed POST leaves behind
\* C33: when delay or the update_job after it raises, after create_job has
\* succeeded, the POST handler answers 5xx and leaves neither the uploaded
\* files nor the record of the job behind.
C33_FailedEnqueueLeavesNothing ==
    (gw_pc = "responded" /\ response.code \in 500..599) =>
        /\ ~upload_dir
        /\ ~output_dir
        /\ saved = 0
        /\ ~Exists(store)

\* the request passes the checks made before save_uploads, and save_uploads
\* raises for one of its files
SaveUploadsRejects ==
    /\ ~(Len(files) = 0 \/ too_many(Len(files)))
    /\ job_type = "trellis" => (backend_valid(backend) /\ ~runpod_unavailable)
    /\ first_rejected(files) # 0

\* C39: when save_uploads rejects a file of an upload request, also after
\* earlier files of the request were written, no file and no directory of the
\* job is left under the upload root once the request has returned.
C39_RejectedUploadLeavesNothing ==
    (SaveUploadsRejects /\ gw_pc = "responded") => (~upload_dir /\ saved = 0)

\* ------------------------------------------------- the directory of the job
\* the directory of the job of a get_file_path call, under the root of its role
JobRoot == joinpath(RoleRoot, arg.job_id)

\* C40: every path get_file_path(job_id, filename, is_output) returns lies,
\* once resolved, within <role root>/<job_id>, also for a filename such as
\* "../<other job>/<file>"; a file of another job is never returned.
C40_LookupStaysInJob ==
    (fn = "get_file_path" /\ "path" \in DOMAIN result)
        => is_relative_to(resolve(result.path), resolve(JobRoot))

\* ------------------------------------------- the key of a request, the health
\* the request carries a key of the allow-list in a bearer Authorization header
KeyInBearer(request) ==
    /\ request.authorization # NoHeader
    /\ lower_text(request.authorization.scheme) = bearer
    /\ request.authorization.credentials \in api_keys_list

\* the request carries a key of the allow-list in the X-API-Key header
KeyInApiKeyHeader(request) ==
    /\ request.x_api_key # NoHeader
    /\ request.x_api_key.value \in api_keys_list

\* the request carries at most one of the two headers
OneHeader(request) == request.authorization = NoHeader \/ request.x_api_key = NoHeader

\* C31: a request to a job endpoint that carries no key of the allow-list is
\* answered 401 and changes neither the record nor the files nor the task; a
\* request that carries a key of the allow-list in a bearer Authorization
\* header or in the X-API-Key header is accepted
C31_AllowListedKeyRequired ==
    [][(fn \in JobEndpoints /\ result = NoResult /\ result' # NoResult) =>
         IF KeyInBearer(arg) \/ KeyInApiKeyHeader(arg)
         THEN "returned" \in DOMAIN result'
         ELSE /\ response' = [request |-> fn, code |-> 401]
              /\ UNCHANGED <<store, file_vars, task, revoked>>]_vars

\* the same for the requests that carry at most one of the two headers
OneHeaderKeyRequired ==
    [][(fn \in JobEndpoints /\ result = NoResult /\ result' # NoResult /\ OneHeader(arg)) =>
         IF KeyInBearer(arg) \/ KeyInApiKeyHeader(arg)
         THEN "returned" \in DOMAIN result'
         ELSE /\ response' = [request |-> fn, code |-> 401]
              /\ UNCHANGED <<store, file_vars, task, revoked>>]_vars

\* a request without a key of the allow-list is never accepted
NoKeyNoEntry ==
    [][(fn \in JobEndpoints /\ result = NoResult /\ result' # NoResult
          /\ ~(KeyInBearer(arg) \/ KeyInApiKeyHeader(arg))) =>
         /\ response' = [request |-> fn, code |-> 401]
         /\ UNCHANGED <<store, file_vars, task, revoked>>]_vars

\* C32: GET /health always answers; it reports healthy only when the store is
\* reachable and at least one worker replied, and degraded when the store is
\* reachable and no worker replied
C32_HealthNeedsWorkers ==
    [][(fn = "health_check" /\ fn' = None) =>
         /\ response' = [request |-> "health_check", code |-> 200]
         /\ "returned" \in DOMAIN result'
         /\ result'.returned.status = "healthy" <=>
               (arg.ping = "PONG" /\ celery_workers(arg.active) >= 1)
         /\ (arg.ping = "PONG" /\ celery_workers(arg.active) = 0) =>
               result'.returned.status = "degraded"]_vars

\* GET /health always answers, and degraded whenever the store is unreachable
HealthAlwaysAnswers ==
    [][(fn = "health_check" /\ fn' = None) =>
         /\ response' = [request |-> "health_check", code |-> 200]
         /\ "returned" \in DOMAIN result'
         /\ result'.returned.status = "healthy" <=> arg.ping = "PONG"]_vars

====
